---------------------------- MODULE Spec2Model ----------------------------
(***************************************************************************)
(* A model of the per-amplifier reduction engine of Panacea                *)
(* (src/amplifier.py, class Amplifier).                                    *)
(*                                                                         *)
(* Python objects are modelled structurally: a Fiber is a record of its    *)
(* attributes, an array is a sequence (column c of the code is element     *)
(* c+1), None is the empty sequence, and self.fibers is a sequence of      *)
(* Fiber records.  good_fibers and dead_fibers, which in the code are      *)
(* lists of references to the objects held by self.fibers, are sequences   *)
(* of 0-based positions in self.fibers.  Numerical primitives that live    *)
(* outside the repository (numpy, biweight estimators, the chi-square      *)
(* wavelength fit, the centroid detector) are inputs chosen from small     *)
(* sets.                                                                   *)
(*                                                                         *)
(* The module holds several specifications over the same variables, one    *)
(* per part of the engine:                                                 *)
(*   SpecFill   fill_in_dead_fibers on arbitrary fiber sequences           *)
(*   SpecPrep   construction and prepare_image, step by step               *)
(*   SpecLoad   the readers of persisted fiber records                     *)
(*   SpecTrace  get_trace on a twilight amplifier, phase by phase          *)
(*   SpecWave   get_wavelength_solution (SpecWaveFair: with fairness)      *)
(*   Spec       the twilight reduction through get_fiber_to_fiber          *)
(*   SpecStages the stage entry points called in any order                 *)
(*   SpecRound  a reduced amplifier saved and loaded into a second one     *)
(*   SpecPair   two amplifiers of one side reduced by interleaved workers  *)
(*   SpecSky    the sky, continuum and residual products of sky_subtraction *)
(*   SpecSci    the driver reduce_science on one science frame             *)
(***************************************************************************)
EXTENDS Integers, Sequences, FiniteSets, TLC

VARIABLES
    cfg,            \* constructor arguments and header values of the Amplifier
    image,          \* self.image
    error,          \* self.error
    overscan_value, \* self.overscan_value
    trimmed,        \* self.trimmed
    image_prepped,  \* self.image_prepped
    fibers,         \* self.fibers
    good_fibers,    \* self.good_fibers (positions in fibers)
    dead_fibers,    \* self.dead_fibers (positions in fibers)
    default_fib,    \* self.default_fib
    env,            \* what the run reads from outside: files, detector output
    pc,             \* where the process is; "exit" is sys.exit, "raise" an uncaught exception
    loc             \* locals of the running method

vars == <<cfg, image, error, overscan_value, trimmed, image_prepped, fibers,
          good_fibers, dead_fibers, default_fib, env, pc, loc>>

imgVars == <<image, error, overscan_value, trimmed, image_prepped>>
fibVars == <<fibers, good_fibers, dead_fibers>>

-----------------------------------------------------------------------------
(* Bounds of the model *)

MaxFib == 4     \* most fibers of an amplifier
NCol == 3       \* columns D of a fiber's per-column arrays

-----------------------------------------------------------------------------
(* Python values *)

None == << >>

IsNone(v) == v = None

Range(s) == {s[i] : i \in 1..Len(s)}

Abs(x) == IF x < 0 THEN -x ELSE x

\* np.arange(n)
Arange(n) == [c \in 1..n |-> c - 1]

\* np.interp(x, xp, fp) for increasing xp: the end values outside xp, linear
\* in between (whole numbers; exact wherever x meets a point of xp)
RECURSIVE InterpFrom(_, _, _, _)
InterpFrom(x, xp, fp, k) ==
    IF x < xp[k + 1]
    THEN IF x = xp[k] THEN fp[k]
         ELSE fp[k] + ((fp[k + 1] - fp[k]) * (x - xp[k])) \div (xp[k + 1] - xp[k])
    ELSE InterpFrom(x, xp, fp, k + 1)

Interp(x, xp, fp) ==
    IF x <= xp[1] THEN fp[1]
    ELSE IF x >= xp[Len(xp)] THEN fp[Len(fp)]
    ELSE InterpFrom(x, xp, fp, 1)

\* [x for x in seq if Test(x)] over positions: the 0-based positions of the
\* fibers whose dead flag equals d, in order
RECURSIVE Positions(_, _, _)
Positions(fibs, d, k) ==
    IF k > Len(fibs) THEN << >>
    ELSE (IF fibs[k].dead = d THEN <<k - 1>> ELSE << >>)
         \o Positions(fibs, d, k + 1)

GoodOf(fibs) == Positions(fibs, FALSE, 1)
DeadOf(fibs) == Positions(fibs, TRUE, 1)

-----------------------------------------------------------------------------
(* The Fiber class (fiber.py): the attributes amplifier.py reads and writes *)

flag == -999

Zeros(D) == [c \in 1..D |-> 0]
Flags(D) == [c \in 1..D |-> flag]

\* Fiber(D, fibnum, path, filename)
Fiber(D, fibnum) ==
    [fibnum |-> fibnum, D |-> D, dead |-> FALSE,
     trace_x |-> Flags(D), trace_y |-> Zeros(D), trace |-> Zeros(D),
     trace_polyvals |-> Zeros(D),
     fibmodel_poly_order |-> <<3>>, fibmodel_x |-> None, fibmodel_y |-> None,
     binx |-> None, fibmodel |-> None, fibmodel_polyvals |-> None,
     spectrum |-> None, wavelength |-> None, wave_polyvals |-> None,
     fiber_to_fiber |-> None, sky_spectrum |-> None]

\* Fiber.init_trace_info
init_trace_info(f) ==
    [f EXCEPT !.trace_x = Flags(f.D), !.trace_y = Zeros(f.D),
              !.trace = Zeros(f.D), !.trace_polyvals = Zeros(f.D)]

\* The outcome of a method of one fiber
FiberOutcome(f, status) == [fiber |-> f, status |-> status]

\* the columns at which the fiber has a centroid (0-based, ascending)
RECURSIVE ObservedFrom(_, _)
ObservedFrom(f, c) ==
    IF c >= f.D THEN << >>
    ELSE (IF f.trace_x[c + 1] # flag THEN <<c>> ELSE << >>) \o ObservedFrom(f, c + 1)

Observed(f) == ObservedFrom(f, 0)

\* Fiber.fit_trace_poly: a polynomial through the observed (column, y)
\* pairs, kept as its table of values at the D columns: the observed y at an
\* observed column, interpolated or continued from the nearest ones
\* elsewhere.  np.polyfit raises TypeError when nothing was observed.
fit_trace_poly(f) ==
    LET sel == Observed(f) IN
    IF sel = << >> THEN FiberOutcome(f, "TypeError")
    ELSE FiberOutcome(
            [f EXCEPT !.trace_polyvals =
                [c \in 1..f.D |->
                    Interp(c - 1, sel, [k \in 1..Len(sel) |-> f.trace_y[sel[k] + 1]])]],
            "ok")

\* Fiber.eval_trace_poly: the polynomial evaluated at every column
eval_trace_poly(f) == [f EXCEPT !.trace = f.trace_polyvals]

\* attributes that are never None: flags and counts
ScalarAttrs == {"fibnum", "D", "dead"}
Has(f, attr) == attr \in DOMAIN f
IsNoneAttr(f, attr) == attr \notin ScalarAttrs /\ IsNone(f[attr])

\* Fiber.eval_fibmodel_poly: the dense profile, the binned amplitudes
\* fibmodel_y at the positions fibmodel_x interpolated onto the D columns
eval_fibmodel_poly(f) ==
    IF ~(Has(f, "binx") /\ Has(f, "fibmodel_x") /\ Has(f, "fibmodel_y")
         /\ Has(f, "D"))
    THEN FiberOutcome(f, "AttributeError")
    ELSE IF IsNone(f.binx) \/ IsNone(f.fibmodel_x) \/ IsNone(f.fibmodel_y)
    THEN FiberOutcome(f, "TypeError")
    ELSE FiberOutcome(
            [a \in DOMAIN f \cup {"fibmodel"} |->
                IF a = "fibmodel"
                THEN [c \in 1..f.D |-> Interp(c - 1, f.fibmodel_x, f.fibmodel_y)]
                ELSE f[a]], "ok")

\* Fiber.eval_wave_poly: the polynomial wave_polyvals evaluated at the D
\* columns.  A polynomial is kept as its table of values at the columns.
eval_wave_poly(f) ==
    IF ~(Has(f, "wave_polyvals") /\ Has(f, "D"))
    THEN FiberOutcome(f, "AttributeError")
    ELSE IF IsNone(f.wave_polyvals) THEN FiberOutcome(f, "TypeError")
    ELSE FiberOutcome(
            [a \in DOMAIN f \cup {"wavelength"} |->
                IF a = "wavelength"
                THEN [c \in 1..f.D |-> Interp(c - 1, Arange(Len(f.wave_polyvals)),
                                              f.wave_polyvals)]
                ELSE f[a]], "ok")

-----------------------------------------------------------------------------
(* get_attribute_from_neighbor_fiber and fill_in_dead_fibers *)

\* The result of a method that may end the process: the fibers as the method
\* left them, what it returned, and how it ended ("ok", "exit" for sys.exit,
\* or the name of the exception that escaped).
Outcome(fibs, ret, status) == [fibers |-> fibs, ret |-> ret, status |-> status]

\* setattr(self.fibers[ind1], pro, 1.*getattr(self.fibers[ind2], pro)) for
\* each pro of prop in turn; 1.*None raises TypeError, and an index outside
\* the list IndexError
RECURSIVE CopyProps(_, _, _, _, _)
CopyProps(fibs, ind1, ind2, prop, n) ==
    IF n > Len(prop) THEN Outcome(fibs, None, "ok")
    ELSE IF ind2 >= Len(fibs) \/ ind1 >= Len(fibs)
         THEN Outcome(fibs, None, "IndexError")
    ELSE IF IsNone(fibs[ind2 + 1][prop[n]])
         THEN Outcome(fibs, None, "TypeError")
    ELSE CopyProps([fibs EXCEPT ![ind1 + 1][prop[n]] = fibs[ind2 + 1][prop[n]]],
                   ind1, ind2, prop, n + 1)

get_attribute_from_neighbor_fiber(fibs, ind1, ind2, prop) ==
    CopyProps(fibs, ind1, ind2, prop, 1)

\* One pass of the `while no_neighbor` loop for the dead fiber at i, at
\* distance j.  The exit test comes after j += 1 and is made whether or not
\* a neighbor was just found.
ExitTest(i, j, len) == i - j < 0 /\ i + j >= len

RECURSIVE NeighborLoop(_, _, _, _)
NeighborLoop(fibs, i, j, props) ==
    LET len == Len(fibs)
        lowIn == i - j >= 0
        lowErr == lowIn /\ i - j >= len
        lowHit == lowIn /\ ~lowErr /\ ~fibs[i - j + 1].dead
        highHit == ~lowHit /\ i + j < len /\ ~fibs[i + j + 1].dead
        src == IF lowHit THEN i - j ELSE IF highHit THEN i + j ELSE -1
        copied == IF src >= 0
                  THEN get_attribute_from_neighbor_fiber(fibs, i, src, props)
                  ELSE Outcome(fibs, None, "ok")
    IN  IF lowErr THEN Outcome(fibs, -1, "IndexError")
        ELSE IF copied.status # "ok" THEN Outcome(copied.fibers, src, copied.status)
        ELSE IF ExitTest(i, j + 1, len) THEN Outcome(copied.fibers, src, "exit")
        ELSE IF src >= 0 THEN Outcome(copied.fibers, src, "ok")
        ELSE NeighborLoop(fibs, i, j + 1, props)

\* for fiber in self.dead_fibers: ...; returns keep_ind (one source index per
\* dead fiber handled)
RECURSIVE FillLoop(_, _, _, _, _)
FillLoop(fibs, dead, n, props, keep_ind) ==
    IF n > Len(dead) THEN Outcome(fibs, keep_ind, "ok")
    ELSE LET i == fibs[dead[n] + 1].fibnum - 1
             r == NeighborLoop(fibs, i, 1, props)
         IN  IF r.status # "ok" THEN Outcome(r.fibers, keep_ind, r.status)
             ELSE FillLoop(r.fibers, dead, n + 1, props, Append(keep_ind, r.ret))

fill_in_dead_fibers(fibs, dead, props) == FillLoop(fibs, dead, 1, props, << >>)

-----------------------------------------------------------------------------
(* Persisted fiber records and their readers.  A directory holds, for this   *)
(* amplifier's key (specid, ifuslot, ifuid, amp), the files                   *)
(* fiber_%03d_<key>.pkl; it is modelled as a function from the indices of    *)
(* the files present to the pickled records.  A pickled record is restored   *)
(* without running Fiber.__init__, so it has exactly the attributes it was   *)
(* saved with.                                                               *)

\* sorted(glob.glob(fn)): the indices of the files present, ascending (the
\* %03d names sort as their indices do)
RECURSIVE SortedSeq(_)
SortedSeq(S) ==
    IF S = {} THEN << >>
    ELSE LET m == CHOOSE x \in S : \A y \in S : x <= y
         IN  <<m>> \o SortedSeq(S \ {m})

Glob(dir) == SortedSeq(DOMAIN dir)

\* fcheck != fiber_fn for the file at 0-based position i of the listing
Mismatch(files, i) == files[i + 1] # i + 1

\* convert_binning(fiber, prop) for an amplifier of D columns
ResampledProps == {"trace", "fiber_to_fiber"}
convert_binning(fiber, prop, D) ==
    IF prop = "fibmodel_x"
    THEN IF ~Has(fiber, "D") THEN [value |-> None, status |-> "AttributeError"]
         ELSE [value |-> [i \in 1..Len(fiber[prop]) |->
                             (fiber[prop][i] * D) \div fiber.D],
               status |-> "ok"]
    ELSE IF prop \in ResampledProps
    THEN IF ~Has(fiber, "D") THEN [value |-> None, status |-> "AttributeError"]
         ELSE [value |-> [c \in 1..D |->
                             Interp((c - 1) * fiber.D,
                                    [k \in 1..fiber.D |-> (k - 1) * D],
                                    fiber[prop])],
               status |-> "ok"]
    ELSE [value |-> fiber[prop], status |-> "ok"]

\* the loop `for pro in prop` of load_cal_property: F is the fiber in memory,
\* F1 the record read from the file
RECURSIVE LoadProps(_, _, _, _, _)
LoadProps(F, F1, prop, n, D) ==
    IF n > Len(prop) THEN FiberOutcome(F, "ok")
    ELSE LET pro == prop[n] IN
         IF ~Has(F1, pro) THEN FiberOutcome(F, "AttributeError")
         ELSE IF IsNoneAttr(F1, pro)
         THEN LoadProps([F EXCEPT ![pro] = None], F1, prop, n + 1, D)
         ELSE LET v == convert_binning(F1, pro, D) IN
              IF v.status = "AttributeError"
              THEN LoadProps(F, F1, prop, n + 1, D)
              ELSE LoadProps([F EXCEPT ![pro] = v.value], F1, prop, n + 1, D)

\* the loop `for i, fiber_fn in enumerate(files)` of load_cal_property
RECURSIVE LoadCalLoop(_, _, _, _, _, _)
LoadCalLoop(fibs, dir, files, i, prop, D) ==
    IF i >= Len(files) THEN Outcome(fibs, None, "ok")
    ELSE IF Mismatch(files, i) THEN Outcome(fibs, None, "exit")
    ELSE LET append_flag == i >= Len(fibs)
             F == IF append_flag THEN Fiber(D, i + 1) ELSE fibs[i + 1]
             r == LoadProps(F, dir[files[i + 1]], prop, 1, D)
             kept == IF append_flag THEN fibs
                     ELSE [fibs EXCEPT ![i + 1] = r.fiber]
         IN  IF r.status # "ok" THEN Outcome(kept, None, r.status)
             ELSE LoadCalLoop(IF append_flag THEN Append(fibs, r.fiber) ELSE kept,
                              dir, files, i + 1, prop, D)

load_cal_property(fibs, dir, prop, D) ==
    LoadCalLoop(fibs, dir, Glob(dir), 0, prop, D)

\* the loop of load_fibers: every file of the listing is unpickled and
\* appended, its fiber model evaluated, and its wavelength solution when it
\* has one
RECURSIVE LoadFibersLoop(_, _, _, _)
LoadFibersLoop(fibs, dir, files, i) ==
    IF i >= Len(files) THEN Outcome(fibs, None, "ok")
    ELSE LET f == dir[files[i + 1]]
             m == eval_fibmodel_poly(f)
             w == IF m.status # "ok" THEN m
                  ELSE IF ~Has(m.fiber, "wave_polyvals")
                       THEN FiberOutcome(m.fiber, "AttributeError")
                  ELSE IF IsNone(m.fiber.wave_polyvals) THEN m
                  ELSE eval_wave_poly(m.fiber)
         IN  IF w.status # "ok" THEN Outcome(Append(fibs, w.fiber), None, w.status)
             ELSE LoadFibersLoop(Append(fibs, w.fiber), dir, files, i + 1)

load_fibers(fibs, dir) ==
    IF fibs = << >> THEN LoadFibersLoop(fibs, dir, Glob(dir), 0)
    ELSE Outcome(fibs, None, "ok")

\* utils.biweight_location of a few values: a robust location, here the
\* (lower) median
biweight_location(a) ==
    LET S == 1..Len(a)
    IN  a[CHOOSE i \in S :
            /\ 2 * Cardinality({j \in S : a[j] < a[i] \/ (a[j] = a[i] /\ j < i)})
                   < Len(a)
            /\ 2 * Cardinality({j \in S : a[j] < a[i] \/ (a[j] = a[i] /\ j <= i)})
                   >= Len(a)]

\* find_shift: the listing is checked as in load_cal_property; the shift of
\* each fiber is the location of its trace minus the calibration trace over
\* the columns low..high-1 around 4D/5 (the whole array when it is narrower
\* than the window).  Returns None when fewer fibers were traced than files
\* exist, else <<self.shift, <<net shift>> >> (the location of no values is
\* nan, kept as << >>).
RECURSIVE FindShiftLoop(_, _, _, _, _)
FindShiftLoop(fibs, dir, files, i, shift) ==
    IF i >= Len(files)
    THEN Outcome(fibs,
                 <<shift, IF shift = << >> THEN << >>
                          ELSE <<biweight_location(shift)>> >>, "ok")
    ELSE IF Mismatch(files, i) THEN Outcome(fibs, None, "exit")
    ELSE IF i >= Len(fibs) THEN Outcome(fibs, None, "ok")
    ELSE LET F == fibs[i + 1]
             F1 == dir[files[i + 1]]
         IN  IF ~Has(F1, "trace") THEN Outcome(fibs, None, "AttributeError")
             ELSE IF IsNone(F1.trace) THEN Outcome(fibs, None, "TypeError")
             ELSE IF Len(F1.trace) # Len(F.trace)
                  THEN Outcome(fibs, None, "ValueError")
             ELSE FindShiftLoop(fibs, dir, files, i + 1,
                     Append(shift,
                            biweight_location([c \in 1..Len(F.trace) |->
                                                  F.trace[c] - F1.trace[c]])))

find_shift(fibs, dir) == FindShiftLoop(fibs, dir, Glob(dir), 0, << >>)

-----------------------------------------------------------------------------
(* Values the specifications that do not exercise a part give its variables *)

NoConfig == [type |-> "twi"]
NoArray == [shape |-> <<0, 0>>, px |-> << >>]
NoEnv == [none |-> TRUE]
NoLocals == [none |-> TRUE]

IdleImage ==
    /\ image = NoArray
    /\ error = NoArray
    /\ overscan_value = None
    /\ trimmed = FALSE
    /\ image_prepped = FALSE

-----------------------------------------------------------------------------
(* SpecFill: fill_in_dead_fibers called on the fiber sequences get_trace     *)
(* can hand it.  get_trace creates fiber k+1 at position k, marks some of    *)
(* them dead, and gives every non-dead fiber a trace; the later stages give  *)
(* every non-dead fiber a fiber model and a wavelength solution.             *)

\* a per-column array that tells fiber n and property tag apart
ArrayOf(D, n, tag) == [c \in 1..D |-> 100 * n + 10 * tag + c]

\* a non-dead fiber as the stages leave it before each fill-in
FittedFiber(D, n) ==
    [Fiber(D, n) EXCEPT
        !.trace_x = Arange(D),
        !.trace_y = ArrayOf(D, n, 1), !.trace = ArrayOf(D, n, 2),
        !.trace_polyvals = ArrayOf(D, n, 2),
        !.fibmodel_x = Arange(D), !.fibmodel_y = ArrayOf(D, n, 4),
        !.binx = ArrayOf(D, 0, 5), !.fibmodel = ArrayOf(D, n, 4),
        !.wavelength = ArrayOf(D, n, 7), !.wave_polyvals = ArrayOf(D, n, 8)]

\* a fiber get_trace marked dead at the reference column
DeadFiber(D, n) == [init_trace_info(Fiber(D, n)) EXCEPT !.dead = TRUE]

\* the property lists of the three call sites
TraceProps == <<"trace_x", "trace_y", "trace">>
ModelProps == <<"fibmodel_poly_order", "fibmodel_x", "fibmodel_y", "binx",
                "fibmodel">>
WaveProps == <<"wavelength", "wave_polyvals">>
FillCalls == {TraceProps, ModelProps, WaveProps}

FillInit ==
    /\ \E n \in 1..MaxFib : \E dead \in SUBSET (1..n) :
          fibers = [k \in 1..n |-> IF k \in dead THEN DeadFiber(NCol, k)
                                   ELSE FittedFiber(NCol, k)]
    /\ good_fibers = GoodOf(fibers)
    /\ dead_fibers = DeadOf(fibers)
    /\ cfg = NoConfig
    /\ IdleImage
    /\ default_fib = 0
    /\ env = NoEnv
    /\ pc = "ready"
    /\ loc = [props \in {} |-> << >>]

\* self.fill_in_dead_fibers(props, return_ind=True); loc remembers the lists
\* already filled and what the last call returned
FillInDeadFibers(props) ==
    /\ pc = "ready"
    /\ props \notin DOMAIN loc
    /\ LET r == fill_in_dead_fibers(fibers, dead_fibers, props)
       IN  /\ fibers' = r.fibers
           /\ pc' = CASE r.status = "ok" -> "ready"
                      [] r.status = "exit" -> "exit"
                      [] OTHER -> "raise"
           /\ loc' = [p \in DOMAIN loc \cup {props} |->
                         IF p = props THEN r.ret ELSE loc[p]]
    /\ UNCHANGED <<cfg, imgVars, good_fibers, dead_fibers, default_fib, env>>

FillNext == \E props \in FillCalls : FillInDeadFibers(props)

SpecFill == FillInit /\ [][FillNext]_vars

-----------------------------------------------------------------------------
(* Rational numbers <<n, d>> with d > 0 in lowest terms; <<0, 0>> is nan.    *)
(* Pixel values are rationals so that the division by the pixel flat is      *)
(* computed, not assumed.                                                    *)

RECURSIVE GCD(_, _)
GCD(a, b) == IF b = 0 THEN a ELSE GCD(b, a % b)

NaN == <<0, 0>>
IsNaN(q) == q[2] = 0

Rat(n, d) ==
    IF d = 0 THEN NaN
    ELSE LET g == GCD(Abs(n), Abs(d))
             sgn == IF d < 0 THEN -1 ELSE 1
         IN  <<(sgn * n) \div g, (sgn * d) \div g>>

Whole(n) == <<n, 1>>
RAdd(p, q) == Rat(p[1] * q[2] + q[1] * p[2], p[2] * q[2])
RSub(p, q) == Rat(p[1] * q[2] - q[1] * p[2], p[2] * q[2])
RMul(p, q) == Rat(p[1] * q[1], p[2] * q[2])
RDiv(p, q) == Rat(p[1] * q[2], p[2] * q[1])
RNeg(q) == q[1] < 0 /\ q[2] > 0

Reverse(a) == [i \in 1..Len(a) |-> a[Len(a) + 1 - i]]

-----------------------------------------------------------------------------
(* The image and the error array.  An array is its shape (rows, columns)     *)
(* and its values at the tracked pixels of the data section: the first and   *)
(* the last pixel in row-major order, which [::-1, ::-1] exchanges.  The     *)
(* error array holds standard deviations; the model keeps their squares, so  *)
(* that sqrt(error**2 + image) is exact.                                     *)

Array(shape, px) == [shape |-> shape, px |-> px]

\* lines 292-299: N and D from the raw shape
InitN(raw) == IF raw[1] = 1074 THEN raw[1] - 50 ELSE raw[1]
InitD(raw) ==
    LET d1 == IF raw[2] = 1064 THEN raw[2] - 32 ELSE raw[2]
        d2 == IF d1 = 2128 THEN d1 - 64 ELSE d1
    IN  IF raw[1] = 1074 THEN d2 - 45 ELSE d2

\* lines 320-324: rdnoise / gain * ones((N, D)), or zeros when gain <= 0
InitError(c) ==
    Array(<<InitN(c.raw), InitD(c.raw)>>,
          [i \in 1..Len(c.data) |->
              IF c.gain > 0 THEN RMul(Rat(c.rdnoise, c.gain), Rat(c.rdnoise, c.gain))
              ELSE Whole(0)])

\* a[y0:y1, x0:x1] of an array of shape (rows, cols): Python clips the slice
Min(a, b) == IF a < b THEN a ELSE b
Max(a, b) == IF a > b THEN a ELSE b
SliceShape(shape, sec) ==
    <<Max(0, Min(sec[4], shape[1]) - sec[3]), Max(0, Min(sec[2], shape[2]) - sec[1])>>

\* element-wise operations of two arrays need equal shapes
SameShape(a, b) == a.shape = b.shape

\* subtract_overscan: the biweight location of the bias section is an input
subtract_overscan(img, ov, biweight) ==
    IF IsNone(ov)
    THEN [image |-> Array(img.shape, [i \in 1..Len(img.px) |-> RSub(img.px[i], biweight)]),
          overscan_value |-> biweight]
    ELSE [image |-> img, overscan_value |-> ov]

\* trim_image with the slice bounds taken in the order of the header
\* ([x0, x1, y0, y1]) instead of rows first: a variant used to test C6
trim_image_axes_swapped(img, tr, trimsec) ==
    IF ~tr THEN [image |-> Array(SliceShape(img.shape,
                                    <<trimsec[3], trimsec[4], trimsec[1], trimsec[2]>>),
                                 img.px),
                 trimmed |-> TRUE]
    ELSE [image |-> img, trimmed |-> tr]

\* trim_image
trim_image(img, tr, trimsec) ==
    IF ~tr THEN [image |-> Array(SliceShape(img.shape, trimsec), img.px),
                 trimmed |-> TRUE]
    ELSE [image |-> img, trimmed |-> tr]

\* the image left without its gain: a variant used to test C24
multiply_gain_image_skipped(img, gain) == img

\* multiply_gain: image *= gain, error *= gain
multiply_gain_image(img, gain) ==
    Array(img.shape, [i \in 1..Len(img.px) |-> RMul(img.px[i], Whole(gain))])
multiply_gain_error(err, gain) ==
    Array(err.shape, [i \in 1..Len(err.px) |-> RMul(err.px[i], Whole(gain * gain))])

\* calculate_photonnoise: error[:] = sqrt(error**2 + image)
PhotonTerm(e2, v) ==
    LET s == RAdd(e2, v) IN IF IsNaN(s) \/ RNeg(s) THEN NaN ELSE s
calculate_photonnoise(err, img) ==
    Array(err.shape, [i \in 1..Len(err.px) |-> PhotonTerm(err.px[i], img.px[i])])

\* subtract_dark / subtract_bias: image - mult * master when mult > 0
subtract_master(img, mult, master) ==
    IF mult > 0
    THEN Array(img.shape, [i \in 1..Len(img.px) |->
                              RSub(img.px[i], RMul(Whole(mult), master[i]))])
    ELSE img

\* divide_pixelflat: np.where(pixelflat != 0, x / pixelflat, 0.0)
\* the quotient alone, without the np.where: a variant used to test C14
FlatImage_unguarded(v, f) == RDiv(v, f)

FlatImage(v, f) == IF f # Whole(0) THEN RDiv(v, f) ELSE Whole(0)
FlatError(e2, f) == IF f # Whole(0) THEN RDiv(e2, RMul(f, f)) ELSE Whole(0)
divide_pixelflat_image(img, use, flat) ==
    IF use THEN Array(img.shape, [i \in 1..Len(img.px) |-> FlatImage(img.px[i], flat[i])]) ELSE img
divide_pixelflat_error(err, use, flat) ==
    IF use THEN Array(err.shape, [i \in 1..Len(err.px) |-> FlatError(err.px[i], flat[i])]) ELSE err

\* orient_image: both arrays reversed in both axes for LU, and for RL
Flipped(amp) == amp = "LU" \/ amp = "RL"
orient_image(a, amp) == IF Flipped(amp) THEN Array(a.shape, Reverse(a.px)) ELSE a

-----------------------------------------------------------------------------
(* SpecPrep: construction of an Amplifier and prepare_image, step by step.   *)
(* prepare_image is entered either directly or through the guard             *)
(* `if not self.image_prepped: self.prepare_image()` that opens every stage.  *)

MaxRuns == 2    \* most entries into prepare_image in one behaviour

\* raw frames: shape of F[0].data and the TRIMSEC of the header as parsed
\* into [x0, x1, y0, y1]
Frames ==
    { [raw |-> <<1032, 1064>>, trimsec |-> <<0, 1032, 0, 1032>>],
      [raw |-> <<1032, 2128>>, trimsec |-> <<0, 2064, 0, 1032>>],
      [raw |-> <<1074, 1069>>, trimsec |-> <<0, 1024, 0, 1024>>],
      [raw |-> <<1032, 1100>>, trimsec |-> <<0, 1032, 0, 1032>>] }

Amps == {"LL", "LU", "RL", "RU"}

\* dark_mult and bias_mult are floats of the constructor: off, on, negative
Multipliers == {-1, 0, 1}

PrepConfigs ==
    { [type |-> "twi", raw |-> f.raw, trimsec |-> f.trimsec,
       data |-> <<Whole(10), Whole(12)>>, gain |-> g, rdnoise |-> 4, amp |-> a,
       dark_mult |-> dm, bias_mult |-> bm, use_pixelflat |-> upf] :
      f \in Frames, g \in {0, 2}, a \in Amps, dm \in Multipliers,
      bm \in Multipliers,
      upf \in BOOLEAN }

PrepEnvs ==
    { [biweight |-> Whole(2),
       darkimage |-> <<Whole(1), Whole(1)>>,
       biasimage |-> <<Whole(3), Whole(1)>>,
       pixelflat |-> <<Whole(fl), Whole(2)>>] : fl \in {0, 2} }

Snapshot ==
    [image |-> image, error |-> error, overscan_value |-> overscan_value,
     trimmed |-> trimmed, image_prepped |-> image_prepped]

\* Amplifier.__init__
ConstructImage(c) ==
    /\ cfg = c
    /\ image = Array(c.raw, c.data)
    /\ error = InitError(c)
    /\ overscan_value = None
    /\ trimmed = FALSE
    /\ image_prepped = FALSE

Construct(c) ==
    /\ ConstructImage(c)
    /\ fibers = << >>
    /\ good_fibers = << >>
    /\ dead_fibers = << >>
    /\ default_fib = 0

PrepInit ==
    /\ \E c \in PrepConfigs : Construct(c)
    /\ env \in PrepEnvs
    /\ pc = "idle"
    /\ loc = [entry |-> Snapshot, runs |-> 0, skipped |-> FALSE]

PrepFrame == <<cfg, fibVars, default_fib, env>>

Enter ==
    /\ pc' = "subtract_overscan"
    /\ loc' = [loc EXCEPT !.entry = Snapshot, !.runs = loc.runs + 1]
    /\ UNCHANGED <<imgVars, PrepFrame>>

\* amp.prepare_image()
PrepareImage ==
    /\ pc = "idle"
    /\ loc.runs < MaxRuns
    /\ Enter

\* the opening of get_trace, get_fibermodel, fiberextract, ...
StageEntry ==
    /\ pc = "idle"
    /\ loc.runs < MaxRuns
    /\ IF ~image_prepped THEN Enter
       ELSE /\ loc' = [loc EXCEPT !.skipped = TRUE]
            /\ UNCHANGED <<pc, imgVars, PrepFrame>>

SubtractOverscan ==
    /\ pc = "subtract_overscan"
    /\ LET r == subtract_overscan(image, overscan_value, env.biweight)
       IN  image' = r.image /\ overscan_value' = r.overscan_value
    /\ pc' = "trim_image"
    /\ UNCHANGED <<error, trimmed, image_prepped, PrepFrame, loc>>

TrimImage ==
    /\ pc = "trim_image"
    /\ LET r == trim_image(image, trimmed, cfg.trimsec)
       IN  image' = r.image /\ trimmed' = r.trimmed
    /\ pc' = "multiply_gain"
    /\ UNCHANGED <<error, overscan_value, image_prepped, PrepFrame, loc>>

MultiplyGain ==
    /\ pc = "multiply_gain"
    /\ image' = multiply_gain_image(image, cfg.gain)
    /\ error' = multiply_gain_error(error, cfg.gain)
    /\ pc' = "calculate_photonnoise"
    /\ UNCHANGED <<overscan_value, trimmed, image_prepped, PrepFrame, loc>>

\* numpy raises ValueError when the two shapes cannot be combined
CalculatePhotonnoise ==
    /\ pc = "calculate_photonnoise"
    /\ IF SameShape(error, image)
       THEN error' = calculate_photonnoise(error, image) /\ pc' = "subtract_bias"
       ELSE error' = error /\ pc' = "raise"
    /\ UNCHANGED <<image, overscan_value, trimmed, image_prepped, PrepFrame, loc>>

SubtractBias ==
    /\ pc = "subtract_bias"
    /\ image' = subtract_master(image, cfg.bias_mult, env.biasimage)
    /\ pc' = "subtract_dark"
    /\ UNCHANGED <<error, overscan_value, trimmed, image_prepped, PrepFrame, loc>>

SubtractDark ==
    /\ pc = "subtract_dark"
    /\ image' = subtract_master(image, cfg.dark_mult, env.darkimage)
    /\ pc' = "divide_pixelflat"
    /\ UNCHANGED <<error, overscan_value, trimmed, image_prepped, PrepFrame, loc>>

DividePixelflat ==
    /\ pc = "divide_pixelflat"
    /\ image' = divide_pixelflat_image(image, cfg.use_pixelflat, env.pixelflat)
    /\ error' = divide_pixelflat_error(error, cfg.use_pixelflat, env.pixelflat)
    /\ pc' = "orient_image"
    /\ UNCHANGED <<overscan_value, trimmed, image_prepped, PrepFrame, loc>>

OrientImage ==
    /\ pc = "orient_image"
    /\ image' = orient_image(image, cfg.amp)
    /\ error' = orient_image(error, cfg.amp)
    /\ pc' = "set_prepped"
    /\ UNCHANGED <<overscan_value, trimmed, image_prepped, PrepFrame, loc>>

SetPrepped ==
    /\ pc = "set_prepped"
    /\ image_prepped' = TRUE
    /\ pc' = "idle"
    /\ UNCHANGED <<image, error, overscan_value, trimmed, PrepFrame, loc>>

PrepNext ==
    \/ PrepareImage
    \/ StageEntry
    \/ SubtractOverscan
    \/ TrimImage
    \/ MultiplyGain
    \/ CalculatePhotonnoise
    \/ SubtractBias
    \/ SubtractDark
    \/ DividePixelflat
    \/ OrientImage
    \/ SetPrepped

SpecPrep == PrepInit /\ [][PrepNext]_vars

-----------------------------------------------------------------------------
(* SpecLoad: the readers of persisted fiber records run on directories       *)
(* written by an earlier run: some indices may be missing, and a record may  *)
(* lack an attribute that the current Fiber class has.                       *)

\* a fiber as a finished twilight run saves it
SavedFiber(D, n, dead) ==
    [FittedFiber(D, n) EXCEPT
        !.dead = dead,
        !.fibmodel_polyvals = ArrayOf(D, n, 4),
        !.spectrum = ArrayOf(D, n, 6),
        !.fiber_to_fiber = ArrayOf(D, n, 9)]

Without(f, attr) == [a \in DOMAIN f \ {attr} |-> f[a]]

\* attributes an older record may lack
OldMissing == {"sky_spectrum", "D", "fibmodel_polyvals"}

\* the directories: any set of indices; the record of at most one index was
\* written without one attribute
Directories ==
    { [n \in S |-> SavedFiber(NCol, n, n \in dead)] :
        S \in SUBSET (1..MaxFib), dead \in {{}, {2}} }
    \cup
    { [n \in S |-> IF n = odd THEN Without(SavedFiber(NCol, n, FALSE), attr)
                   ELSE SavedFiber(NCol, n, FALSE)] :
        S \in SUBSET (1..MaxFib), odd \in 1..2, attr \in OldMissing }

\* the property lists of the call sites of load_cal_property
AllCalProps == <<"trace", "fibmodel_polyvals", "fibmodel_x", "fibmodel_y",
                 "binx", "wave_polyvals", "fiber_to_fiber", "dead">>
LoadCalls == { <<"trace", "dead">>, <<"fibmodel_polyvals", "binx">>,
               <<"wave_polyvals">>, <<"fiber_to_fiber">>, <<"sky_spectrum">>,
               <<"trace">>, AllCalProps }

LoadInit ==
    /\ cfg = [type |-> "sci", D |-> NCol, debug |-> FALSE]
    /\ IdleImage
    /\ \E n \in 0..MaxFib : fibers = [k \in 1..n |-> FittedFiber(NCol, k)]
    /\ good_fibers = GoodOf(fibers)
    /\ dead_fibers = << >>
    /\ default_fib = 0
    /\ \E dir \in Directories : env = [files |-> dir]
    /\ pc = "ready"
    /\ loc = [call |-> "none", prop |-> << >>, ret |-> None, before |-> fibers]

LoadFrame == <<cfg, imgVars, default_fib, env>>

Ended(status) ==
    CASE status = "ok" -> "returned"
      [] status = "exit" -> "exit"
      [] OTHER -> "raise"

\* self.load_fibers()
LoadFibers ==
    /\ pc = "ready"
    /\ LET r == load_fibers(fibers, env.files)
       IN  /\ fibers' = r.fibers
           /\ pc' = Ended(r.status)
           /\ IF r.status = "ok" /\ fibers = << >>
              THEN good_fibers' = GoodOf(r.fibers) /\ dead_fibers' = DeadOf(r.fibers)
              ELSE UNCHANGED <<good_fibers, dead_fibers>>
           /\ loc' = [call |-> "load_fibers", prop |-> << >>, ret |-> r.ret,
                      before |-> fibers]
    /\ UNCHANGED LoadFrame

\* self.load_cal_property(prop)
LoadCalProperty(prop) ==
    /\ pc = "ready"
    /\ LET r == load_cal_property(fibers, env.files, prop, cfg.D)
       IN  /\ fibers' = r.fibers
           /\ pc' = Ended(r.status)
           /\ loc' = [call |-> "load_cal_property", prop |-> prop, ret |-> r.ret,
                      before |-> fibers]
    /\ UNCHANGED <<LoadFrame, good_fibers, dead_fibers>>

\* self.find_shift()
FindShift ==
    /\ pc = "ready"
    /\ LET r == find_shift(fibers, env.files)
       IN  /\ pc' = Ended(r.status)
           /\ loc' = [call |-> "find_shift", prop |-> << >>, ret |-> r.ret,
                      before |-> fibers]
    /\ UNCHANGED <<LoadFrame, fibVars>>

LoadNext ==
    \/ LoadFibers
    \/ \E prop \in LoadCalls : LoadCalProperty(prop)
    \/ FindShift

SpecLoad == LoadInit /\ [][LoadNext]_vars

-----------------------------------------------------------------------------
(* prepare_image as one call: the steps of SpecPrep in their order *)

prepare_image(s, c, e) ==
    LET o == subtract_overscan(s.image, s.overscan_value, e.biweight)
        t == trim_image(o.image, s.trimmed, c.trimsec)
        g == multiply_gain_image(t.image, c.gain)
        ge == multiply_gain_error(s.error, c.gain)
        pe == calculate_photonnoise(ge, g)
        b == subtract_master(g, c.bias_mult, e.biasimage)
        d == subtract_master(b, c.dark_mult, e.darkimage)
    IN  IF ~SameShape(ge, g)
        THEN [image |-> g, error |-> ge, overscan_value |-> o.overscan_value,
              trimmed |-> t.trimmed, image_prepped |-> FALSE,
              status |-> "ValueError"]
        ELSE [image |-> orient_image(
                  divide_pixelflat_image(d, c.use_pixelflat, e.pixelflat), c.amp),
              error |-> orient_image(
                  divide_pixelflat_error(pe, c.use_pixelflat, e.pixelflat), c.amp),
              overscan_value |-> o.overscan_value, trimmed |-> t.trimmed,
              image_prepped |-> TRUE, status |-> "ok"]

\* if not self.image_prepped: self.prepare_image()
EnsurePrepared(s, c, e) ==
    IF s.image_prepped
    THEN [image |-> s.image, error |-> s.error,
          overscan_value |-> s.overscan_value, trimmed |-> s.trimmed,
          image_prepped |-> TRUE, status |-> "ok"]
    ELSE prepare_image(s, c, e)

-----------------------------------------------------------------------------
(* get_trace on a twilight or refit amplifier.  The centroid detector        *)
(* get_trace_from_image is an input: allfibers[c] is the ascending list of   *)
(* the centroids it found at column c, and xc the columns 0..D-1.            *)

fdist == 2          \* self.fdist, the default
fdist_ref == 4      \* self.fdist_ref, the default
col_frac == 47      \* self.col_frac, the default, in hundredths

\* np.argmin(np.abs(a - v)): the first position of a nearest to v, 0-based
ArgMinAbs(a, v) ==
    CHOOSE k \in 0..Len(a) - 1 :
        /\ \A m \in 0..Len(a) - 1 : Abs(a[k + 1] - v) <= Abs(a[m + 1] - v)
        /\ \A m \in 0..k - 1 : Abs(a[m + 1] - v) > Abs(a[k + 1] - v)

\* brcol = np.argmin(np.abs(xc - self.D * self.col_frac))
brcol(D) == ArgMinAbs([c \in 1..D |-> 100 * (c - 1)], col_frac * D)

\* xc[brcol::-1] and xc[(brcol+1)::1]
cols1(D) == [n \in 1..brcol(D) + 1 |-> brcol(D) + 1 - n]
cols2(D) == [n \in 1..D - 1 - brcol(D) |-> brcol(D) + n]

\* the loop `for i in xrange(len(standardcol))`: fiber i is created when the
\* list is shorter, its trace arrays reset, and it is seeded at the reference
\* column or marked dead.  np.argmin of an empty array raises ValueError.
RECURSIVE InitTraces(_, _, _, _, _)
InitTraces(fibs, standardcol, yref, i, D) ==
    IF i >= Len(standardcol) THEN Outcome(fibs, None, "ok")
    ELSE LET have == IF i < Len(fibs) THEN fibs ELSE Append(fibs, Fiber(D, i + 1))
             F == init_trace_info(have[i + 1])
         IN  IF yref = << >>
             THEN Outcome([have EXCEPT ![i + 1] = F], None, "ValueError")
             ELSE LET floc == ArgMinAbs(yref, standardcol[i + 1])
                      F1 == IF Abs(standardcol[i + 1] - yref[floc + 1]) < fdist_ref
                            THEN [F EXCEPT !.trace_x[brcol(D) + 1] = brcol(D),
                                           !.trace_y[brcol(D) + 1] = yref[floc + 1]]
                            ELSE [F EXCEPT !.dead = TRUE]
                  IN  InitTraces([have EXCEPT ![i + 1] = F1], standardcol, yref,
                                 i + 1, D)

\* the column loops with a fiber that finds no centroid marked dead: a variant
\* used to test C26
MatchColumn_marks_dead(f, yvals, c) ==
    IF yvals = << >> THEN f
    ELSE LET xloc == ArgMinAbs(f.trace_x, c)
             floc == ArgMinAbs(yvals, f.trace_y[xloc + 1])
         IN  IF Abs(f.trace_y[xloc + 1] - yvals[floc + 1]) < fdist
             THEN [f EXCEPT !.trace_x[c + 1] = c, !.trace_y[c + 1] = yvals[floc + 1]]
             ELSE [f EXCEPT !.dead = TRUE]

\* the body of the column loops for one fiber at column c
MatchColumn(f, yvals, c) ==
    IF yvals = << >> THEN f
    ELSE LET xloc == ArgMinAbs(f.trace_x, c)
             floc == ArgMinAbs(yvals, f.trace_y[xloc + 1])
         IN  IF Abs(f.trace_y[xloc + 1] - yvals[floc + 1]) < fdist
             THEN [f EXCEPT !.trace_x[c + 1] = c, !.trace_y[c + 1] = yvals[floc + 1]]
             ELSE f

RECURSIVE WalkColumns(_, _, _, _)
WalkColumns(f, allfibers, cols, n) ==
    IF n > Len(cols) THEN f
    ELSE WalkColumns(MatchColumn(f, allfibers[cols[n] + 1], cols[n]),
                     allfibers, cols, n + 1)

\* `for c in cols1` then `for c in cols2`, each over the good fibers; a
\* fiber's walk reads and writes that fiber only, so the walks are taken
\* fiber by fiber
WalkTraces(fibs, good, allfibers, D) ==
    [k \in 1..Len(fibs) |->
        IF k - 1 \in Range(good)
        THEN WalkColumns(fibs[k], allfibers, cols1(D) \o cols2(D), 1)
        ELSE fibs[k]]

\* np.sum(fiber.trace_x != fiber.flag) == len(xc)
Complete(f) == Len(Observed(f)) = f.D

\* the first loop over good_fibers: fit and evaluate the complete traces
EvalComplete(fibs, good) ==
    [k \in 1..Len(fibs) |->
        IF k - 1 \in Range(good) /\ Complete(fibs[k])
        THEN eval_trace_poly(fit_trace_poly(fibs[k]).fiber)
        ELSE fibs[k]]

\* np.all(trace > 0)
AllPositive(a) == \A c \in 1..Len(a) : a[c] > 0

\* the gap columns of f take the neighbour trace nb plus the offset of f from
\* the trace off, interpolated over the observed columns sel
FillFrom(f, sel, off, nb) ==
    LET dif(c) == Interp(c, sel, [k \in 1..Len(sel) |->
                                     f.trace_y[sel[k] + 1] - off[sel[k] + 1]])
    IN  [f EXCEPT !.trace_x = Arange(f.D),
                  !.trace_y = [c \in 1..f.D |->
                                  IF f.trace_x[c] # flag THEN f.trace_y[c]
                                  ELSE dif(c - 1) + nb[c]]]

\* the body of the second loop for the gap fiber at position fib of
\* good_fibers.  The offset of the upper neighbour is measured against
\* self.fibers[fib+k], the lower one against self.good_fibers[fib-k].
FillGaps(fibs, good, fib) ==
    LET p == good[fib + 1] + 1
        fit == fit_trace_poly(fibs[p])
        f == fit.fiber
        sel == Observed(f)
        up == fib + 1 <= Len(good) - 1 /\ AllPositive(fibs[good[fib + 2] + 1].trace)
        down == fib - 1 >= 0 /\ AllPositive(fibs[good[fib] + 1].trace)
        filled ==
            IF up THEN FillFrom(f, sel, fibs[fib + 2].trace,
                                fibs[good[fib + 2] + 1].trace)
            ELSE IF down THEN FillFrom(f, sel, fibs[good[fib] + 1].trace,
                                       fibs[good[fib] + 1].trace)
            ELSE [f EXCEPT !.trace_x = Arange(f.D),
                           !.trace_y = [c \in 1..f.D |->
                                           IF f.trace_x[c] # flag THEN f.trace_y[c]
                                           ELSE f.trace_polyvals[c]]]
    IN  IF fit.status # "ok" THEN Outcome(fibs, None, "exit")
        ELSE Outcome([fibs EXCEPT ![p] = eval_trace_poly(filled)], None, "ok")

RECURSIVE FillGapLoop(_, _, _)
FillGapLoop(fibs, good, fib) ==
    IF fib >= Len(good) THEN Outcome(fibs, None, "ok")
    ELSE IF Complete(fibs[good[fib + 1] + 1]) THEN FillGapLoop(fibs, good, fib + 1)
    ELSE LET r == FillGaps(fibs, good, fib)
         IN  IF r.status # "ok" THEN r ELSE FillGapLoop(r.fibers, good, fib + 1)

\* the loop after fill_in_dead_fibers: the copied trace of each dead fiber
\* is moved by the distance of its standard position from its source's
\* the same loop on a dead fiber that holds its source's arrays themselves:
\* the in-place += moves the source with it.  A variant used to test C30
RECURSIVE OffsetDead_shared(_, _, _, _, _)
OffsetDead_shared(fibs, dead, ind, standardcol, i) ==
    IF i > Len(dead) THEN Outcome(fibs, ind, "ok")
    ELSE LET p == dead[i] + 1
             n == fibs[p].fibnum
         IN  IF n - 1 >= Len(standardcol) \/ ind[i] >= Len(standardcol)
             THEN Outcome(fibs, ind, "IndexError")
             ELSE LET d == standardcol[n] - standardcol[ind[i] + 1]
                  IN  OffsetDead_shared(
                        [fibs EXCEPT ![p].trace_y = [c \in 1..Len(@) |-> @[c] + d],
                                     ![p].trace = [c \in 1..Len(@) |-> @[c] + d],
                                     ![ind[i] + 1].trace_y = [c \in 1..Len(@) |-> @[c] + d],
                                     ![ind[i] + 1].trace = [c \in 1..Len(@) |-> @[c] + d]],
                        dead, ind, standardcol, i + 1)

RECURSIVE OffsetDead(_, _, _, _, _)
OffsetDead(fibs, dead, ind, standardcol, i) ==
    IF i > Len(dead) THEN Outcome(fibs, ind, "ok")
    ELSE LET p == dead[i] + 1
             n == fibs[p].fibnum
         IN  IF n - 1 >= Len(standardcol) \/ ind[i] >= Len(standardcol)
             THEN Outcome(fibs, ind, "IndexError")
             ELSE LET d == standardcol[n] - standardcol[ind[i] + 1]
                  IN  OffsetDead(
                        [fibs EXCEPT ![p].trace_y = [c \in 1..Len(@) |-> @[c] + d],
                                     ![p].trace = [c \in 1..Len(@) |-> @[c] + d]],
                        dead, ind, standardcol, i + 1)

FillDeadTraces_no_offset(fibs, dead, standardcol) ==
    fill_in_dead_fibers(fibs, dead, TraceProps)

FillDeadTraces(fibs, dead, standardcol) ==
    LET r == fill_in_dead_fibers(fibs, dead, TraceProps)
    IN  IF r.status # "ok" THEN r
        ELSE OffsetDead(r.fibers, dead, r.ret, standardcol, 1)

\* utils.biweight_filter(a, 25) of fewer values than the window holds: every
\* value becomes the location of them all
biweight_filter(a) == [i \in 1..Len(a) |-> biweight_location(a)]

\* the `if self.calculate_shift` block.  self.shift is assigned only on the
\* last line of find_shift: after an early `return None` reading it raises
\* AttributeError.
RECURSIVE AddShift(_, _, _)
AddShift(fibs, smooth_shift, i) ==
    IF i >= Len(fibs) THEN Outcome(fibs, None, "ok")
    ELSE IF i >= Len(smooth_shift) THEN Outcome(fibs, None, "IndexError")
    ELSE AddShift([fibs EXCEPT ![i + 1].trace =
                      [c \in 1..Len(@) |-> @[c] + smooth_shift[i + 1]]],
                  smooth_shift, i + 1)

ShiftTraces(fibs, dir, D) ==
    LET s == find_shift(fibs, dir)
        l == load_cal_property(fibs, dir, <<"trace">>, D)
    IN  IF s.status # "ok" THEN s
        ELSE IF s.ret = None THEN Outcome(fibs, None, "AttributeError")
        ELSE IF l.status # "ok" THEN l
        ELSE AddShift(l.fibers, biweight_filter(s.ret[1]), 0)

-----------------------------------------------------------------------------
(* SpecTrace: get_trace, phase by phase, on a freshly constructed twilight   *)
(* amplifier.  Fiber n of MaxFib lies at 10n + c at column c; the reference  *)
(* file lists the standard positions 10n.  At the reference column any set   *)
(* of fibers may be undetected, or one fiber's centroid displaced; at each   *)
(* other column the first or the last fiber may be undetected, or nothing    *)
(* is detected.  The calibration directory holds one record per fiber, its   *)
(* trace as an earlier frame measured it.                                    *)

\* the centroids at column c of the fibers of `present`, the one of fiber
\* `moved` displaced by `by`
Centroids(c, present, moved, by) ==
    SortedSeq({10 * n + c + (IF n = moved THEN by ELSE 0) : n \in present})

ColumnChoices(c, D, F) ==
    IF c = brcol(D)
    THEN {Centroids(c, P, 0, 0) : P \in SUBSET (1..F)}
         \cup {Centroids(c, 1..F, n, by) : n \in 1..F, by \in {2, 3}}
    ELSE {Centroids(c, (1..F) \ {n}, 0, 0) : n \in {0, 1, F}} \cup {<< >>}

RECURSIVE Detections(_, _, _)
Detections(c, D, F) ==
    IF c >= D THEN {<< >>}
    ELSE {<<col>> \o rest : col \in ColumnChoices(c, D, F),
                            rest \in Detections(c + 1, D, F)}

\* the reference file of F fibers, not yet sorted
RefFile(F) == [n \in 1..F |-> 10 * (F + 1 - n)]

\* the calibration directory: one record per fiber
CalDir(F) ==
    [n \in 1..F |-> [SavedFiber(NCol, n, FALSE) EXCEPT
                        !.trace = [c \in 1..NCol |-> 10 * n + c + (n % 2)]]]

TraceConfigs ==
    { [type |-> "twi", raw |-> <<1032, 1064>>, trimsec |-> <<0, 1032, 0, 1032>>,
       data |-> <<Whole(10), Whole(12)>>, gain |-> 2, rdnoise |-> 4, amp |-> "LL",
       dark_mult |-> 0, bias_mult |-> 1, use_pixelflat |-> FALSE,
       D |-> NCol, debug |-> FALSE, init_lims |-> <<3500, 5500>>,
       use_trace_ref |-> u, calculate_shift |-> s] :
      u, s \in BOOLEAN }

\* what a run reads: the master frames, the detector's centroids, the
\* reference file and the calibration directory
Inputs(a, F) ==
    [biweight |-> Whole(2),
     darkimage |-> <<Whole(1), Whole(1)>>,
     biasimage |-> <<Whole(3), Whole(1)>>,
     pixelflat |-> <<Whole(2), Whole(2)>>,
     allfibers |-> a,
     ref_file |-> RefFile(F),
     files |-> CalDir(F)]

TraceEnvs == { Inputs(a, MaxFib) : a \in Detections(0, NCol, MaxFib) }

TraceInit ==
    /\ \E c \in TraceConfigs : Construct(c)
    /\ env \in TraceEnvs
    /\ pc = "get_trace"
    /\ loc = [standardcol |-> << >>, ind |-> << >>]

TraceFrame == <<cfg, default_fib, env>>

\* lines 661-721: the prepare_image guard, the reference column, the
\* standard positions and the seeding loop
TraceSeed ==
    /\ pc = "get_trace"
    /\ LET p == EnsurePrepared(Snapshot, cfg, env)
           yref == env.allfibers[brcol(cfg.D) + 1]
           standardcol == IF cfg.use_trace_ref
                          THEN SortedSeq(Range(env.ref_file))
                          ELSE yref
           r == InitTraces(fibers, standardcol, yref, 0, cfg.D)
       IN  /\ image' = p.image
           /\ error' = p.error
           /\ overscan_value' = p.overscan_value
           /\ trimmed' = p.trimmed
           /\ image_prepped' = p.image_prepped
           /\ IF p.status # "ok"
              THEN pc' = "raise" /\ UNCHANGED <<fibVars, loc>>
              ELSE /\ fibers' = r.fibers
                   /\ loc' = [loc EXCEPT !.standardcol = standardcol]
                   /\ IF r.status = "ok"
                      THEN /\ good_fibers' = GoodOf(r.fibers)
                           /\ dead_fibers' = DeadOf(r.fibers)
                           /\ pc' = "walk"
                      ELSE /\ UNCHANGED <<good_fibers, dead_fibers>>
                           /\ pc' = Ended(r.status)
    /\ UNCHANGED TraceFrame

\* lines 722-745
TraceWalk ==
    /\ pc = "walk"
    /\ fibers' = WalkTraces(fibers, good_fibers, env.allfibers, cfg.D)
    /\ pc' = "fit"
    /\ UNCHANGED <<imgVars, good_fibers, dead_fibers, TraceFrame, loc>>

\* lines 746-788
TraceFit ==
    /\ pc = "fit"
    /\ LET r == FillGapLoop(EvalComplete(fibers, good_fibers), good_fibers, 0)
       IN  /\ fibers' = r.fibers
           /\ pc' = IF r.status = "ok" THEN "fill" ELSE Ended(r.status)
    /\ UNCHANGED <<imgVars, good_fibers, dead_fibers, TraceFrame, loc>>

\* lines 789-804
TraceFillDead ==
    /\ pc = "fill"
    /\ LET r == FillDeadTraces(fibers, dead_fibers, loc.standardcol)
       IN  /\ fibers' = r.fibers
           /\ loc' = [loc EXCEPT !.ind = r.ret]
           /\ pc' = IF r.status # "ok" THEN Ended(r.status)
                    ELSE IF cfg.calculate_shift THEN "shift"
                    ELSE "returned"
    /\ UNCHANGED <<imgVars, good_fibers, dead_fibers, TraceFrame>>

\* lines 805-811
TraceShift ==
    /\ pc = "shift"
    /\ LET r == ShiftTraces(fibers, env.files, cfg.D)
       IN  /\ fibers' = r.fibers
           /\ pc' = Ended(r.status)
    /\ UNCHANGED <<imgVars, good_fibers, dead_fibers, TraceFrame, loc>>

TraceNext ==
    \/ TraceSeed
    \/ TraceWalk
    \/ TraceFit
    \/ TraceFillDead
    \/ TraceShift

SpecTrace == TraceInit /\ [][TraceNext]_vars

-----------------------------------------------------------------------------
(* get_wavelength_solution on a twilight or refit amplifier.  The chi-square *)
(* fit calculate_wavelength_chi2 and the flux extraction                     *)
(* get_norm_nonparametric_fast are outside the repository's engine: what     *)
(* they return is an input.                                                  *)

WaveTol == 100          \* the tolerance of the boundary check
MaxSeedFailures == 9    \* `if cnting>9`
NRandom == 112          \* np.random.choice(112)

\* for fiber in self.fibers: fiber.eval_fibmodel_poly()
RECURSIVE EvalFibmodels(_, _)
EvalFibmodels(fibs, i) ==
    IF i >= Len(fibs) THEN Outcome(fibs, None, "ok")
    ELSE LET r == eval_fibmodel_poly(fibs[i + 1])
         IN  IF r.status # "ok" THEN Outcome(fibs, None, r.status)
             ELSE EvalFibmodels([fibs EXCEPT ![i + 1] = r.fiber], i + 1)

\* norm = get_norm_nonparametric_fast(...); fiber.spectrum = norm[i,:] for
\* every fiber, dead ones included
Extract(fibs) ==
    [k \in 1..Len(fibs) |-> [fibs[k] EXCEPT !.spectrum = ArrayOf(fibs[k].D, k, 6)]]

\* a wavelength array running from lo at column 0 to hi at column D-1
Ramp(lo, hi, D) == [c \in 1..D |-> lo + ((hi - lo) * (c - 1)) \div (D - 1)]

ArrayMin(a) == CHOOSE v \in Range(a) : \A w \in Range(a) : v <= w
ArrayMax(a) == CHOOSE v \in Range(a) : \A w \in Range(a) : v >= w

\* the boundary check of the seed fiber
OutOfRange_min_only(w, lims) ==
    Abs(ArrayMin(w) - lims[1]) > WaveTol

OutOfRange(w, lims) ==
    \/ Abs(ArrayMin(w) - lims[1]) > WaveTol
    \/ Abs(ArrayMax(w) - lims[2]) > WaveTol

\* what the fit of the seed fiber n may return: for an odd fiber a solution
\* exactly WaveTol away at both ends or one a unit further at the low end,
\* for an even one a solution inside the range or one beyond the tolerance
\* at the high end only
SeedFits(n, lims, D) ==
    IF n % 2 = 1
    THEN {Ramp(lims[1] - WaveTol, lims[2] + WaveTol, D),
          Ramp(lims[1] - WaveTol - 1, lims[2], D)}
    ELSE {Ramp(lims[1] + n, lims[2] - n, D),
          Ramp(lims[1], lims[2] + WaveTol + 1, D)}

\* what the fit of fiber n started from a neighbor's solution returns in
\* pass k: nothing in the code holds it to the range
PropagatedFit(n, k, lims, D) ==
    Ramp(lims[1] - 2 * WaveTol + 10 * n + k, lims[2] - WaveTol + 10 * n + k, D)

\* np.random.choice(NRandom): every valid position of good_fibers, the first
\* position past them and the largest value (positions past the list all
\* fail alike at line 954)
RandomChoice(len) == {r \in 0..NRandom - 1 : r <= len \/ r = NRandom - 1}

\* one pass of `while content==False` with the fit returning fw and the
\* random draw r
SeedAttempt_no_count(fibs, good, d, cnting, fw, r, lims) ==
    IF d >= Len(good)
    THEN [fibers |-> fibs, default_fib |-> d, cnting |-> cnting, status |-> "IndexError"]
    ELSE LET p == good[d + 1] + 1
             set == [fibs EXCEPT ![p].wavelength = fw, ![p].wave_polyvals = fw]
             bad == OutOfRange(fw, lims)
         IN  [fibers |-> set,
              default_fib |-> IF bad THEN r ELSE d,
              cnting |-> cnting,
              status |-> IF ~bad THEN "content" ELSE "again"]

SeedAttempt(fibs, good, d, cnting, fw, r, lims) ==
    IF d >= Len(good)
    THEN [fibers |-> fibs, default_fib |-> d, cnting |-> cnting, status |-> "IndexError"]
    ELSE LET p == good[d + 1] + 1
             set == [fibs EXCEPT ![p].wavelength = fw, ![p].wave_polyvals = fw]
             bad == OutOfRange(fw, lims)
             n == IF bad THEN cnting + 1 ELSE cnting
         IN  [fibers |-> set,
              default_fib |-> IF bad THEN r ELSE d,
              cnting |-> n,
              status |-> IF n > MaxSeedFailures THEN "exit"
                         ELSE IF bad THEN "again" ELSE "content"]

\* fc[(default_fib-1)::-1] and fc[(default_fib+1)::1], each empty at its end
fibs1(d) == IF d = 0 THEN << >> ELSE [i \in 1..d |-> d - i]
fibs2(d, len) == IF d = len - 1 THEN << >> ELSE [i \in 1..len - 1 - d |-> d + i]

\* one of the loops `for fibn in fibs1` (step 1) and `for fibn in fibs2`
\* (step -1): the fit of good_fibers[fibn] is handed
\* init_sol = self.fibers[fibn + step].wave_polyvals, and sols collects what
\* each fit was handed.  fibn + step lies between 0 and default_fib or
\* between default_fib and len(good_fibers) - 1, always inside self.fibers.
RECURSIVE Propagate(_, _, _, _, _, _, _, _)
Propagate(fibs, good, order, step, i, k, lims, sols) ==
    IF i > Len(order) THEN [fibers |-> fibs, init_sol |-> sols]
    ELSE LET fibn == order[i]
             p == good[fibn + 1] + 1
             fw == PropagatedFit(fibs[p].fibnum, k, lims, fibs[p].D)
             init_sol == fibs[fibn + step + 1].wave_polyvals
         IN  Propagate([fibs EXCEPT ![p].wavelength = fw, ![p].wave_polyvals = fw],
                       good, order, step, i + 1, k, lims,
                       Append(sols, [fibn |-> fibn, init_sol |-> init_sol]))

\* get_master_sky(norm=True): self.masterwave, the wavelengths of the good
\* fibers in ascending order (as the set of its values)
masterwave(fibs, good) ==
    UNION {Range(fibs[good[i] + 1].wavelength) : i \in 1..Len(good)}

-----------------------------------------------------------------------------
(* SpecWave: get_wavelength_solution entered with fibers that were traced,   *)
(* modelled and extracted, so that of its opening guards only the image      *)
(* preparation and the re-evaluation of the fiber models run.                *)

WaveFib == 3    \* most fibers of the amplifier in SpecWave

\* the fibers after get_trace, get_fibermodel and fiberextract: the dead
\* ones filled from their neighbors
SolvableFibers(n, dead) ==
    LET start == [k \in 1..n |->
                    IF k \in dead THEN DeadFiber(NCol, k)
                    ELSE [FittedFiber(NCol, k) EXCEPT !.wavelength = None,
                                                      !.wave_polyvals = None]]
        t == FillDeadTraces(start, DeadOf(start), [k \in 1..n |-> 10 * k])
        m == fill_in_dead_fibers(t.fibers, DeadOf(start), ModelProps)
    IN  IF t.status = "ok" /\ m.status = "ok" THEN {Extract(m.fibers)} ELSE {}

WaveConfigs ==
    { [type |-> "twi", raw |-> <<1032, 1064>>, trimsec |-> <<0, 1032, 0, 1032>>,
       data |-> <<Whole(10), Whole(12)>>, gain |-> 2, rdnoise |-> 4, amp |-> "LL",
       dark_mult |-> 0, bias_mult |-> 1, use_pixelflat |-> FALSE,
       D |-> NCol, debug |-> FALSE, init_lims |-> l] :
      l \in {None, <<3500, 5500>>} }

WaveEnvs ==
    { [biweight |-> Whole(2),
       darkimage |-> <<Whole(1), Whole(1)>>,
       biasimage |-> <<Whole(3), Whole(1)>>,
       pixelflat |-> <<Whole(2), Whole(2)>>] }

WaveInit ==
    /\ \E c \in WaveConfigs : ConstructImage(c)
    /\ env \in WaveEnvs
    /\ \E n \in 1..WaveFib : \E dead \in SUBSET (1..n) :
          \E f \in SolvableFibers(n, dead) :
             /\ fibers = f
             /\ good_fibers = GoodOf(f)
             /\ dead_fibers = DeadOf(f)
    /\ default_fib \in {0, 1}
    /\ pc = "get_wavelength_solution"
    /\ loc = [k |-> 0, cnting |-> 0, masterwave |-> {}, init_sol |-> << >>]

WaveFrame == <<cfg, env, good_fibers, dead_fibers>>

\* lines 932-952: the guards, the extraction if none was made, the check of
\* init_lims and the entry into the first pass
WaveEnter ==
    /\ pc = "get_wavelength_solution"
    /\ fibers # << >>
    /\ ~IsNone(fibers[1].fibmodel)
    /\ LET p == EnsurePrepared(Snapshot, cfg, env)
           m == EvalFibmodels(fibers, 0)
       IN  /\ image' = p.image
           /\ error' = p.error
           /\ overscan_value' = p.overscan_value
           /\ trimmed' = p.trimmed
           /\ image_prepped' = p.image_prepped
           /\ IF p.status # "ok" THEN pc' = "raise" /\ fibers' = fibers
              ELSE IF m.status # "ok" THEN pc' = "raise" /\ fibers' = m.fibers
              ELSE /\ fibers' = IF IsNone(m.fibers[1].spectrum)
                                THEN Extract(m.fibers) ELSE m.fibers
                   /\ pc' = IF IsNone(cfg.init_lims) THEN "exit" ELSE "seed"
    /\ UNCHANGED <<WaveFrame, default_fib, loc>>

\* lines 953-976: one pass of the while loop
WaveSeed ==
    /\ pc = "seed"
    /\ \E fw \in IF default_fib < Len(good_fibers)
                 THEN SeedFits(fibers[good_fibers[default_fib + 1] + 1].fibnum,
                               cfg.init_lims, cfg.D)
                 ELSE {None} :
       \E r \in RandomChoice(Len(good_fibers)) :
          LET a == SeedAttempt(fibers, good_fibers, default_fib, loc.cnting, fw, r,
                               cfg.init_lims)
          IN  /\ fibers' = a.fibers
              /\ default_fib' = a.default_fib
              /\ loc' = [loc EXCEPT !.cnting = a.cnting]
              /\ pc' = CASE a.status = "content" -> "propagate"
                         [] a.status = "again" -> "seed"
                         [] a.status = "exit" -> "exit"
                         [] OTHER -> "raise"
    /\ UNCHANGED <<imgVars, WaveFrame>>

\* the propagation followed by the fill-in after the first pass already: a
\* variant used to test C23
WavePropagate_one_pass ==
    /\ pc = "propagate"
    /\ LET down == Propagate(fibers, good_fibers, fibs1(default_fib), 1, 1,
                             loc.k, cfg.init_lims, << >>)
           up == Propagate(down.fibers, good_fibers,
                           fibs2(default_fib, Len(good_fibers)), -1, 1,
                           loc.k, cfg.init_lims, down.init_sol)
       IN  /\ fibers' = up.fibers
           /\ loc' = [loc EXCEPT !.init_sol = up.init_sol]
    /\ pc' = "fill_wavelength"
    /\ UNCHANGED <<imgVars, WaveFrame, default_fib>>

\* lines 977-1015
WavePropagate ==
    /\ pc = "propagate"
    /\ LET down == Propagate(fibers, good_fibers, fibs1(default_fib), 1, 1,
                             loc.k, cfg.init_lims, << >>)
           up == Propagate(down.fibers, good_fibers,
                           fibs2(default_fib, Len(good_fibers)), -1, 1,
                           loc.k, cfg.init_lims, down.init_sol)
       IN  /\ fibers' = up.fibers
           /\ loc' = [loc EXCEPT !.init_sol = up.init_sol]
    /\ pc' = IF loc.k = 0 THEN "master_sky" ELSE "fill_wavelength"
    /\ UNCHANGED <<imgVars, WaveFrame, default_fib>>

\* lines 1016-1020 and the start of the second pass
WaveMasterSky ==
    /\ pc = "master_sky"
    /\ loc' = [loc EXCEPT !.k = 1, !.cnting = 0,
                           !.masterwave = masterwave(fibers, good_fibers)]
    /\ pc' = "seed"
    /\ UNCHANGED <<imgVars, WaveFrame, fibers, default_fib>>

\* line 1021
WaveFill ==
    /\ pc = "fill_wavelength"
    /\ LET r == fill_in_dead_fibers(fibers, dead_fibers, WaveProps)
       IN  fibers' = r.fibers /\ pc' = Ended(r.status)
    /\ UNCHANGED <<imgVars, WaveFrame, default_fib, loc>>

WaveNext ==
    \/ WaveEnter
    \/ WaveSeed
    \/ WavePropagate
    \/ WaveMasterSky
    \/ WaveFill

SpecWave == WaveInit /\ [][WaveNext]_vars

\* the process keeps running: a pass of the seed loop that can be taken is
\* taken
SpecWaveFair == SpecWave /\ WF_vars(WaveSeed)

-----------------------------------------------------------------------------
(* get_fibermodel, fiberextract and get_fiber_to_fiber.  The profile fit     *)
(* fit_fibermodel_nonparametric is outside the engine: what it returns for   *)
(* fiber n is the array ArrayOf(D, n, 4) over the bins Arange(D).            *)

\* lines 866-872 for one good fiber; Fiber.fit_fibmodel_poly leaves the
\* coefficients in fibmodel_polyvals
FitFibmodel(f) ==
    eval_fibmodel_poly(
        [f EXCEPT !.fibmodel_poly_order = <<3>>,
                  !.fibmodel_x = Arange(f.D),
                  !.fibmodel_y = ArrayOf(f.D, f.fibnum, 4),
                  !.binx = ArrayOf(f.D, 0, 5),
                  !.fibmodel_polyvals = ArrayOf(f.D, f.fibnum, 4)]).fiber

\* the twilight branch of get_fibermodel without its last statement
get_fibermodel_no_fill(fibs, good, dead) ==
    Outcome([k \in 1..Len(fibs) |->
                IF k - 1 \in Range(good) THEN FitFibmodel(fibs[k]) ELSE fibs[k]],
            None, "ok")

\* the twilight branch of get_fibermodel, lines 853-874
get_fibermodel(fibs, good, dead) ==
    fill_in_dead_fibers(
        [k \in 1..Len(fibs) |->
            IF k - 1 \in Range(good) THEN FitFibmodel(fibs[k]) ELSE fibs[k]],
        dead, ModelProps)

\* fiberextract entered with a fiber model: lines 902-912
fiberextract(fibs) ==
    LET m == EvalFibmodels(fibs, 0)
    IN  IF m.status # "ok" THEN m ELSE Outcome(Extract(m.fibers), None, "ok")

\* lines 1072-1087: the average spectrum over the good fibers and each
\* fiber's spectrum over it, both smoothed by a filter wider than the arrays
RECURSIVE Stack(_, _, _)
Stack(fibs, good, i) ==
    IF i > Len(good) THEN << >>
    ELSE fibs[good[i] + 1].spectrum \o Stack(fibs, good, i + 1)

FiberToFiber(fibs, good) ==
    IF \E k \in 1..Len(fibs) : IsNone(fibs[k].spectrum) \/ IsNone(fibs[k].wavelength)
    THEN Outcome(fibs, None, "TypeError")
    ELSE IF good = << >> THEN Outcome(fibs, None, "ValueError")
    ELSE LET averagespec == biweight_location(Stack(fibs, good, 1))
         IN  Outcome([k \in 1..Len(fibs) |->
                        [fibs[k] EXCEPT !.fiber_to_fiber =
                            [c \in 1..fibs[k].D |->
                                Rat(biweight_location(fibs[k].spectrum),
                                    averagespec)]]],
                     None, "ok")

-----------------------------------------------------------------------------
(* Spec: the twilight reduction of one amplifier.  The driver calls          *)
(* get_fiber_to_fiber on a fresh amplifier, whose guards run prepare_image,  *)
(* get_trace, get_fibermodel, fiberextract and get_wavelength_solution in    *)
(* turn.  loc.stage is the stage the call is in.  At the reference column    *)
(* any of the first, the second and the last of the WaveFib fibers may be    *)
(* undetected.                                                               *)

PipeEnvs ==
    { Inputs([c \in 1..NCol |->
                 Centroids(c - 1,
                           IF c - 1 = brcol(NCol) THEN (1..WaveFib) \ S
                           ELSE 1..WaveFib, 0, 0)],
             WaveFib) :
      S \in SUBSET {1, 2, WaveFib} }

Init ==
    /\ \E c \in {t \in TraceConfigs : t.calculate_shift => t.use_trace_ref} :
          Construct(c)
    /\ env \in PipeEnvs
    /\ pc = "get_fiber_to_fiber"
    /\ loc = [stage |-> "start", standardcol |-> << >>, ind |-> << >>,
              k |-> 0, cnting |-> 0, masterwave |-> {}, init_sol |-> << >>]

\* lines 1043-1050: the fibers are not there yet, get_trace is called
FtfStart ==
    /\ pc = "get_fiber_to_fiber"
    /\ fibers = << >>
    /\ LET p == EnsurePrepared(Snapshot, cfg, env)
       IN  /\ image' = p.image
           /\ error' = p.error
           /\ overscan_value' = p.overscan_value
           /\ trimmed' = p.trimmed
           /\ image_prepped' = p.image_prepped
           /\ pc' = IF p.status = "ok" THEN "get_trace" ELSE "raise"
    /\ loc' = [loc EXCEPT !.stage = "trace"]
    /\ UNCHANGED <<fibVars, TraceFrame>>

\* lines 1051-1054: self.fibers[0].fibmodel is None, get_fibermodel is called
FtfModel ==
    /\ pc = "returned"
    /\ loc.stage = "trace"
    /\ loc' = [loc EXCEPT !.stage = "model"]
    /\ IF fibers = << >>
       THEN pc' = "raise" /\ fibers' = fibers
       ELSE LET r == get_fibermodel(fibers, good_fibers, dead_fibers)
            IN  fibers' = r.fibers /\ pc' = Ended(r.status)
    /\ UNCHANGED <<imgVars, good_fibers, dead_fibers, TraceFrame>>

\* lines 1059-1062: self.fibers[0].spectrum is None, fiberextract is called
FtfExtract ==
    /\ pc = "returned"
    /\ loc.stage = "model"
    /\ loc' = [loc EXCEPT !.stage = "extract"]
    /\ LET r == fiberextract(fibers)
       IN  fibers' = r.fibers /\ pc' = Ended(r.status)
    /\ UNCHANGED <<imgVars, good_fibers, dead_fibers, TraceFrame>>

\* lines 1063-1066: self.fibers[0].wave_polyvals is None,
\* get_wavelength_solution is called
FtfWave ==
    /\ pc = "returned"
    /\ loc.stage = "extract"
    /\ loc' = [loc EXCEPT !.stage = "wave"]
    /\ pc' = "get_wavelength_solution"
    /\ UNCHANGED <<imgVars, fibVars, TraceFrame>>

\* lines 1072-1087
FtfFinish ==
    /\ pc = "returned"
    /\ loc.stage = "wave"
    /\ loc' = [loc EXCEPT !.stage = "ftf"]
    /\ LET r == FiberToFiber(fibers, good_fibers)
       IN  fibers' = r.fibers /\ pc' = IF r.status = "ok" THEN "done" ELSE "raise"
    /\ UNCHANGED <<imgVars, good_fibers, dead_fibers, TraceFrame>>

Next ==
    \/ FtfStart
    \/ TraceSeed
    \/ TraceWalk
    \/ TraceFit
    \/ TraceFillDead
    \/ TraceShift
    \/ FtfModel
    \/ FtfExtract
    \/ FtfWave
    \/ WaveEnter
    \/ WaveSeed
    \/ WavePropagate
    \/ WaveMasterSky
    \/ WaveFill
    \/ FtfFinish

Spec == Init /\ [][Next]_vars

-----------------------------------------------------------------------------
(* The stage entry points as whole calls.  Every entry point opens with the  *)
(* guards of its prerequisites and calls the stages that are missing; the    *)
(* calls are synchronous, so a call is one step from the state of the        *)
(* amplifier s (its image record, fibers, good and dead fibers, default_fib) *)
(* to the state it leaves.  s.log lists, in order, the stages whose          *)
(* computation was started: the stage, whether it fitted or loaded (or       *)
(* found nothing to load), whether some fiber already held its product, and  *)
(* the entry point the caller invoked.                                       *)

\* the value v under the name the operator F gives it
With(v, F(_)) == F(v)

\* self.type == 'twi' or self.refit
Refits(c) == c.type = "twi" \/ c.refit

\* some fiber of s already holds the product of the stage
HasProduct(s, stage) ==
    CASE stage = "prepare_image" -> s.img.image_prepped
      [] stage = "trace" -> s.fibers # << >>
      [] stage = "fibermodel" ->
            \E k \in 1..Len(s.fibers) : ~IsNone(s.fibers[k].fibmodel)
      [] stage = "extract" ->
            \E k \in 1..Len(s.fibers) : ~IsNone(s.fibers[k].spectrum)
      [] stage = "wavelength" ->
            \E k \in 1..Len(s.fibers) : ~IsNone(s.fibers[k].wave_polyvals)
      [] stage = "fiber_to_fiber" ->
            \E k \in 1..Len(s.fibers) : ~IsNone(s.fibers[k].fiber_to_fiber)
      [] OTHER -> \E k \in 1..Len(s.fibers) : ~IsNone(s.fibers[k].sky_spectrum)

StageLog(s, stage, how) ==
    [s EXCEPT !.log = Append(@, [stage |-> stage, how |-> how,
                                 had |-> HasProduct(s, stage), call |-> s.call])]

\* the fibers and the status an operation on the fibers left
Settle(s, r) == [s EXCEPT !.fibers = r.fibers, !.status = r.status]

\* self.load_cal_property(prop) as a stage: "none" when calpath holds no
\* record of this amplifier
LoadStage(s, c, e, stage, prop) ==
    Settle(StageLog(s, stage, IF Glob(e.files) = << >> THEN "none" ELSE "load"),
           load_cal_property(s.fibers, e.files, prop, c.D))

\* if not self.image_prepped: self.prepare_image()
Prepared(s, c, e) ==
    IF s.status # "ok" \/ s.img.image_prepped THEN s
    ELSE With(prepare_image(s.img, c, e), LAMBDA p :
            [StageLog(s, "prepare_image", "fit") EXCEPT
                !.img = [image |-> p.image, error |-> p.error,
                         overscan_value |-> p.overscan_value,
                         trimmed |-> p.trimmed,
                         image_prepped |-> p.image_prepped],
                !.status = p.status])

\* lines 668-811: the twilight branch of get_trace, the phases of SpecTrace
\* in their order
ComputeTrace(s, c, e) ==
    LET yref == e.allfibers[brcol(c.D) + 1]
        standardcol == IF c.use_trace_ref THEN SortedSeq(Range(e.ref_file))
                       ELSE yref
    IN  With(InitTraces(s.fibers, standardcol, yref, 0, c.D), LAMBDA i :
        IF i.status # "ok" THEN Settle(s, i)
        ELSE
        With(GoodOf(i.fibers), LAMBDA good :
        With(DeadOf(i.fibers), LAMBDA dead :
        With([s EXCEPT !.good_fibers = good, !.dead_fibers = dead], LAMBDA t :
        With(FillGapLoop(EvalComplete(WalkTraces(i.fibers, good, e.allfibers, c.D),
                                      good), good, 0), LAMBDA g :
        IF g.status # "ok" THEN Settle(t, g)
        ELSE
        With(FillDeadTraces(g.fibers, dead, standardcol), LAMBDA d :
        IF d.status # "ok" \/ ~c.calculate_shift THEN Settle(t, d)
        ELSE Settle(t, ShiftTraces(d.fibers, e.files, c.D))))))))

\* lines 813-819: the trace and the dead flags are loaded from calpath
LoadTrace(s, c, e) ==
    With(LoadStage(s, c, e, "trace", <<"trace", "dead">>), LAMBDA l :
        IF l.status # "ok" THEN l
        ELSE [l EXCEPT !.fibers = [k \in 1..Len(@) |-> eval_trace_poly(@[k])],
                       !.good_fibers = GoodOf(l.fibers),
                       !.dead_fibers = DeadOf(l.fibers)])

\* get_trace
GetTrace(s0, c, e) ==
    With(Prepared(s0, c, e), LAMBDA s :
        IF s.status # "ok" THEN s
        ELSE IF Refits(c) THEN ComputeTrace(StageLog(s, "trace", "fit"), c, e)
        ELSE LoadTrace(s, c, e))

\* if not self.fibers: self.get_trace()
Traced(s, c, e) ==
    IF s.status = "ok" /\ s.fibers = << >> THEN GetTrace(s, c, e) ELSE s

\* get_fibermodel
GetFibermodel(s0, c, e) ==
    With(Traced(Prepared(s0, c, e), c, e), LAMBDA s :
        IF s.status # "ok" THEN s
        ELSE IF Refits(c)
        THEN Settle(StageLog(s, "fibermodel", "fit"),
                    get_fibermodel(s.fibers, s.good_fibers, s.dead_fibers))
        ELSE With(LoadStage(s, c, e, "fibermodel", <<"fibmodel_polyvals", "binx">>),
                  LAMBDA l : IF l.status # "ok" THEN l
                             ELSE Settle(l, EvalFibmodels(l.fibers, 0))))

\* if self.fibers[0].fibmodel is None: self.get_fibermodel()
\* else: for fiber in self.fibers: fiber.eval_fibmodel_poly()
Modelled(s, c, e) ==
    IF s.status # "ok" THEN s
    ELSE IF s.fibers = << >> THEN [s EXCEPT !.status = "IndexError"]
    ELSE IF IsNone(s.fibers[1].fibmodel) THEN GetFibermodel(s, c, e)
    ELSE Settle(s, EvalFibmodels(s.fibers, 0))

\* norm = get_norm_nonparametric_fast(...); fiber.spectrum = norm[i,:]
Extracted(s) == [StageLog(s, "extract", "fit") EXCEPT !.fibers = Extract(@)]

\* fiberextract
FiberExtract(s0, c, e) ==
    With(Modelled(Traced(Prepared(s0, c, e), c, e), c, e), LAMBDA s :
        IF s.status # "ok" THEN s ELSE Extracted(s))

\* the seed loop of one pass, lines 953-976: the fit of a fiber returns the
\* same solution each time it is asked (inside the tolerance when
\* e.seed_ok, outside otherwise), and every random draw is e.draw
RECURSIVE SeedLoop(_, _, _, _, _, _)
SeedLoop(fibs, good, d, cnting, c, e) ==
    LET fw == IF d < Len(good)
              THEN CHOOSE w \in SeedFits(fibs[good[d + 1] + 1].fibnum,
                                         c.init_lims, c.D) :
                       OutOfRange(w, c.init_lims) = ~e.seed_ok
              ELSE None
        a == SeedAttempt(fibs, good, d, cnting, fw, e.draw, c.init_lims)
    IN  IF a.status = "again"
        THEN SeedLoop(a.fibers, good, a.default_fib, a.cnting, c, e)
        ELSE a

\* one pass of `for k in xrange(2)`, lines 951-1015
WavePass(s, k, c, e) ==
    With(SeedLoop(s.fibers, s.good_fibers, s.default_fib, 0, c, e), LAMBDA a :
        IF a.status # "content"
        THEN [s EXCEPT !.fibers = a.fibers, !.default_fib = a.default_fib,
                       !.status = a.status]
        ELSE
        With(Propagate(a.fibers, s.good_fibers, fibs1(a.default_fib), 1, 1,
                       k, c.init_lims, << >>), LAMBDA down :
        With(Propagate(down.fibers, s.good_fibers,
                       fibs2(a.default_fib, Len(s.good_fibers)), -1, 1,
                       k, c.init_lims, down.init_sol), LAMBDA up :
        [s EXCEPT !.fibers = up.fibers, !.default_fib = a.default_fib])))

\* lines 950-1021
SolveWavelength(s, c, e) ==
    With(WavePass(s, 0, c, e), LAMBDA p0 :
    With(IF p0.status = "ok" THEN WavePass(p0, 1, c, e) ELSE p0, LAMBDA p1 :
        IF p1.status # "ok" THEN p1
        ELSE Settle(p1, fill_in_dead_fibers(p1.fibers, p1.dead_fibers, WaveProps))))

\* for fiber in self.fibers: fiber.eval_wave_poly()
RECURSIVE EvalWaves(_, _)
EvalWaves(fibs, i) ==
    IF i >= Len(fibs) THEN Outcome(fibs, None, "ok")
    ELSE LET r == eval_wave_poly(fibs[i + 1])
         IN  IF r.status # "ok" THEN Outcome(fibs, None, r.status)
             ELSE EvalWaves([fibs EXCEPT ![i + 1] = r.fiber], i + 1)

\* get_wavelength_solution
GetWavelengthSolution(s0, c, e) ==
    With(Modelled(Traced(Prepared(s0, c, e), c, e), c, e), LAMBDA s :
        IF s.status # "ok" THEN s
        ELSE IF Refits(c)
        THEN With(IF IsNone(s.fibers[1].spectrum) THEN Extracted(s) ELSE s,
                  LAMBDA x :
                      IF IsNone(c.init_lims) THEN [x EXCEPT !.status = "exit"]
                      ELSE SolveWavelength(StageLog(x, "wavelength", "fit"), c, e))
        ELSE With(LoadStage(s, c, e, "wavelength", <<"wave_polyvals">>),
                  LAMBDA l : IF l.status # "ok" THEN l
                             ELSE Settle(l, EvalWaves(l.fibers, 0))))

\* if self.fibers[0].wave_polyvals is None: self.get_wavelength_solution()
\* else: for fiber in self.fibers: fiber.eval_wave_poly()
Solved(s, c, e) ==
    IF s.status # "ok" THEN s
    ELSE IF IsNone(s.fibers[1].wave_polyvals) THEN GetWavelengthSolution(s, c, e)
    ELSE Settle(s, EvalWaves(s.fibers, 0))

\* if self.fibers[0].spectrum is None: self.fiberextract()
WithSpectrum(s, c, e) ==
    IF s.status = "ok" /\ IsNone(s.fibers[1].spectrum) THEN FiberExtract(s, c, e)
    ELSE s

\* get_fiber_to_fiber
GetFiberToFiber(s0, c, e) ==
    With(Modelled(Traced(Prepared(s0, c, e), c, e), c, e), LAMBDA s :
        IF s.status # "ok" THEN s
        ELSE IF ~Refits(c)
        THEN LoadStage(s, c, e, "fiber_to_fiber", <<"fiber_to_fiber">>)
        ELSE With(Solved(WithSpectrum(s, c, e), c, e), LAMBDA w :
                IF w.status # "ok" THEN w
                ELSE Settle(StageLog(w, "fiber_to_fiber", "fit"),
                            FiberToFiber(w.fibers, w.good_fibers))))

\* lines 1128-1133 with skypath None: the master sky over the good fibers
\* and each fiber's share of it
ComputeSky(s) ==
    IF \E k \in 1..Len(s.fibers) :
          \/ IsNone(s.fibers[k].fiber_to_fiber)
          \/ IsNone(s.fibers[k].wavelength)
          \/ IsNone(s.fibers[k].spectrum)
    THEN [s EXCEPT !.status = "TypeError"]
    ELSE IF s.good_fibers = << >> THEN [s EXCEPT !.status = "ValueError"]
    ELSE [s EXCEPT !.fibers = [k \in 1..Len(s.fibers) |->
                                  [s.fibers[k] EXCEPT
                                      !.sky_spectrum = ArrayOf(s.fibers[k].D, k, 3)]]]

\* sky_subtraction
SkySubtraction(s0, c, e) ==
    With(Modelled(Traced(Prepared(s0, c, e), c, e), c, e), LAMBDA s :
    IF s.status # "ok" THEN s
    ELSE
    With(IF IsNone(s.fibers[1].fiber_to_fiber)
         THEN LoadStage(s, c, e, "fiber_to_fiber", <<"fiber_to_fiber">>)
         ELSE s, LAMBDA l :
    IF l.status # "ok" THEN l
    ELSE
    With(Solved(WithSpectrum(l, c, e), c, e), LAMBDA w :
    IF w.status # "ok" THEN w
    ELSE
    With(IF IsNone(w.fibers[1].fiber_to_fiber) THEN GetFiberToFiber(w, c, e)
         ELSE w, LAMBDA f :
    IF f.status # "ok" THEN f
    ELSE ComputeSky(StageLog(f, "sky", "fit"))))))

-----------------------------------------------------------------------------
(* SpecStages: a driver calls load_fibers and the stage entry points, in any *)
(* order, on a freshly constructed amplifier (twilight or science, with or   *)
(* without refit).  calpath holds the records of an earlier calibration run  *)
(* or nothing, and so does the amplifier's own output path; the first of     *)
(* the WaveFib fibers may be undetected at the reference column.             *)

MaxCalls == 2   \* most calls of the driver in one behaviour

StageConfigs ==
    { [type |-> t, refit |-> r, raw |-> <<1032, 1064>>,
       trimsec |-> <<0, 1032, 0, 1032>>, data |-> <<Whole(10), Whole(12)>>,
       gain |-> 2, rdnoise |-> 4, amp |-> "LL", dark_mult |-> 0, bias_mult |-> 1,
       use_pixelflat |-> FALSE, D |-> NCol, debug |-> FALSE,
       init_lims |-> <<3500, 5500>>, use_trace_ref |-> TRUE,
       calculate_shift |-> FALSE] :
      t \in {"twi", "sci"}, r \in BOOLEAN }

\* the records a finished run left in a directory
SavedRun(F) == [n \in 1..F |-> SavedFiber(NCol, n, FALSE)]
NoRecords == [n \in {} |-> SavedFiber(NCol, n, FALSE)]

StageEnvs ==
    { [biweight |-> Whole(2),
       darkimage |-> <<Whole(1), Whole(1)>>,
       biasimage |-> <<Whole(3), Whole(1)>>,
       pixelflat |-> <<Whole(2), Whole(2)>>,
       allfibers |-> [c \in 1..NCol |->
                        Centroids(c - 1,
                                  IF c - 1 = brcol(NCol) THEN (1..WaveFib) \ S
                                  ELSE 1..WaveFib, 0, 0)],
       ref_file |-> RefFile(WaveFib),
       files |-> cal,
       path |-> own,
       seed_ok |-> ok,
       draw |-> r] :
      S \in {{}, {1}}, cal \in {NoRecords, SavedRun(WaveFib)},
      own \in {NoRecords, SavedRun(WaveFib)}, ok \in BOOLEAN,
      r \in {1, NRandom - 1} }

StagesInit ==
    /\ \E c \in StageConfigs : Construct(c)
    /\ env \in StageEnvs
    /\ pc = "idle"
    /\ loc = [calls |-> << >>, log |-> << >>]

\* the amplifier as a call finds it
AmpNow(name) ==
    [img |-> Snapshot, fibers |-> fibers, good_fibers |-> good_fibers,
     dead_fibers |-> dead_fibers, default_fib |-> default_fib,
     log |-> loc.log, call |-> [n |-> Len(loc.calls) + 1, name |-> name],
     status |-> "ok"]

\* the amplifier as the call leaves it; an exception or sys.exit ends the
\* driver
Leave(s) ==
    /\ image' = s.img.image
    /\ error' = s.img.error
    /\ overscan_value' = s.img.overscan_value
    /\ trimmed' = s.img.trimmed
    /\ image_prepped' = s.img.image_prepped
    /\ fibers' = s.fibers
    /\ good_fibers' = s.good_fibers
    /\ dead_fibers' = s.dead_fibers
    /\ default_fib' = s.default_fib
    /\ loc' = [calls |-> Append(loc.calls, s.call.name), log |-> s.log]
    /\ pc' = IF s.status = "ok" THEN "idle" ELSE Ended(s.status)
    /\ UNCHANGED <<cfg, env>>

CanCall == pc = "idle" /\ Len(loc.calls) < MaxCalls

\* amp.load_fibers() from the amplifier's own path
CallLoadFibers ==
    /\ CanCall
    /\ Leave(With(load_fibers(fibers, env.path), LAMBDA r :
                IF r.status = "ok" /\ fibers = << >>
                THEN [Settle(AmpNow("load_fibers"), r) EXCEPT
                         !.good_fibers = GoodOf(r.fibers),
                         !.dead_fibers = DeadOf(r.fibers)]
                ELSE Settle(AmpNow("load_fibers"), r)))

CallGetTrace == CanCall /\ Leave(GetTrace(AmpNow("get_trace"), cfg, env))

CallGetFibermodel ==
    CanCall /\ Leave(GetFibermodel(AmpNow("get_fibermodel"), cfg, env))

CallFiberextract ==
    CanCall /\ Leave(FiberExtract(AmpNow("fiberextract"), cfg, env))

CallGetWavelengthSolution ==
    CanCall /\ Leave(GetWavelengthSolution(AmpNow("get_wavelength_solution"),
                                           cfg, env))

CallGetFiberToFiber ==
    CanCall /\ Leave(GetFiberToFiber(AmpNow("get_fiber_to_fiber"), cfg, env))

CallSkySubtraction ==
    CanCall /\ Leave(SkySubtraction(AmpNow("sky_subtraction"), cfg, env))

StagesNext ==
    \/ CallLoadFibers
    \/ CallGetTrace
    \/ CallGetFibermodel
    \/ CallFiberextract
    \/ CallGetWavelengthSolution
    \/ CallGetFiberToFiber
    \/ CallSkySubtraction

SpecStages == StagesInit /\ [][StagesNext]_vars

-----------------------------------------------------------------------------
(* SpecRound: a twilight amplifier is reduced and saved, and a second        *)
(* amplifier of the same frame format, whose path and calpath are the        *)
(* directory just written, loads the records, as reduce_twighlight and       *)
(* reduce_science do one after the other.                                    *)

\* Fiber.save (fiber.py): the fiber pickled whole into
\* fiber_%03d_<key>.pkl under its own fibnum, replacing a file of that name
save(f, dir) ==
    [n \in DOMAIN dir \cup {f.fibnum} |-> IF n = f.fibnum THEN f ELSE dir[n]]

\* save_fibers: for fiber in self.fibers: fiber.save(...)
RECURSIVE save_fibers(_, _, _)
save_fibers(fibs, dir, k) ==
    IF k > Len(fibs) THEN dir
    ELSE save_fibers(fibs, save(fibs[k], dir), k + 1)

\* for fiber in self.fibers: eval_fibmodel_poly(); eval_wave_poly()
RECURSIVE EvalAll(_, _)
EvalAll(fibs, i) ==
    IF i >= Len(fibs) THEN Outcome(fibs, None, "ok")
    ELSE LET m == eval_fibmodel_poly(fibs[i + 1])
             w == IF m.status # "ok" THEN m ELSE eval_wave_poly(m.fiber)
         IN  IF w.status # "ok"
             THEN Outcome([fibs EXCEPT ![i + 1] = w.fiber], None, w.status)
             ELSE EvalAll([fibs EXCEPT ![i + 1] = w.fiber], i + 1)

\* load_all_cal without the wavelength polynomial in the list of loaded
\* properties: a variant used to test C16
load_all_cal_no_wave(fibs, dir, D) ==
    LET r == load_cal_property(fibs, dir,
                 <<"trace", "fibmodel_polyvals", "fibmodel_x", "fibmodel_y",
                   "binx", "fiber_to_fiber", "dead">>, D)
    IN  IF r.status # "ok" THEN r ELSE EvalAll(r.fibers, 0)

\* load_all_cal
load_all_cal(fibs, dir, D) ==
    LET r == load_cal_property(fibs, dir, AllCalProps, D)
    IN  IF r.status # "ok" THEN r ELSE EvalAll(r.fibers, 0)

RoundConfigs == {c \in StageConfigs : c.type = "twi"}

\* the fibers of the frame; those of S are not detected at the reference
\* column.  The output directory starts empty, or holds the records of an
\* earlier run that found one fiber more.
RoundEnvs ==
    { [biweight |-> Whole(2),
       darkimage |-> <<Whole(1), Whole(1)>>,
       biasimage |-> <<Whole(3), Whole(1)>>,
       pixelflat |-> <<Whole(2), Whole(2)>>,
       allfibers |-> [c \in 1..NCol |->
                        Centroids(c - 1,
                                  IF c - 1 = brcol(NCol) THEN (1..WaveFib) \ S
                                  ELSE 1..WaveFib, 0, 0)],
       ref_file |-> RefFile(WaveFib),
       files |-> NoRecords,
       path |-> own,
       seed_ok |-> ok,
       draw |-> r] :
      S \in (SUBSET (1..WaveFib)) \ {1..WaveFib},
      own \in {NoRecords, SavedRun(WaveFib + 1)}, ok \in BOOLEAN,
      r \in {1, NRandom - 1} }

RoundInit ==
    /\ \E c \in RoundConfigs : Construct(c)
    /\ env \in RoundEnvs
    /\ pc = "twi"
    /\ loc = [saved |-> << >>, how |-> "none"]

\* the amplifier takes the state s
Becomes(s) ==
    /\ image' = s.img.image
    /\ error' = s.img.error
    /\ overscan_value' = s.img.overscan_value
    /\ trimmed' = s.img.trimmed
    /\ image_prepped' = s.img.image_prepped
    /\ fibers' = s.fibers
    /\ good_fibers' = s.good_fibers
    /\ dead_fibers' = s.dead_fibers
    /\ default_fib' = s.default_fib

\* the reduction left the amplifier in s
RoundReduced(s) ==
    /\ Becomes(s)
    /\ pc' = IF s.status = "ok" THEN "reduced" ELSE Ended(s.status)

\* twi.load_fibers(); twi.get_fiber_to_fiber()
RoundReduce ==
    /\ pc = "twi"
    /\ RoundReduced(GetFiberToFiber(
          With(load_fibers(fibers, env.path), LAMBDA l :
               [img |-> Snapshot, fibers |-> l.fibers,
                good_fibers |-> GoodOf(l.fibers),
                dead_fibers |-> DeadOf(l.fibers), default_fib |-> default_fib,
                log |-> << >>, call |-> [n |-> 1, name |-> "get_fiber_to_fiber"],
                status |-> l.status]), cfg, env))
    /\ UNCHANGED <<cfg, env, loc>>

\* twi.save_fibers()
RoundSave ==
    /\ pc = "reduced"
    /\ env' = [env EXCEPT !.path = save_fibers(fibers, env.path, 1)]
    /\ loc' = [loc EXCEPT !.saved = fibers]
    /\ pc' = "saved"
    /\ UNCHANGED <<cfg, imgVars, fibVars, default_fib>>

\* Amplifier(...) on a frame of the same format
NewAmplifier ==
    /\ image' = Array(cfg.raw, cfg.data)
    /\ error' = InitError(cfg)
    /\ overscan_value' = None
    /\ trimmed' = FALSE
    /\ image_prepped' = FALSE
    /\ default_fib' = 0

\* the loader returned r into the new amplifier
RoundLoaded(r, how) ==
    /\ NewAmplifier
    /\ fibers' = r.fibers
    /\ good_fibers' = IF r.status = "ok" THEN GoodOf(r.fibers) ELSE << >>
    /\ dead_fibers' = IF r.status = "ok" THEN DeadOf(r.fibers) ELSE << >>
    /\ pc' = Ended(r.status)
    /\ loc' = [loc EXCEPT !.how = how]
    /\ UNCHANGED <<cfg, env>>

\* sci = Amplifier(..., path = the directory); sci.load_fibers()
RoundLoadFibers ==
    /\ pc = "saved"
    /\ RoundLoaded(load_fibers(<< >>, env.path), "load_fibers")

\* sci = Amplifier(..., calpath = the directory); sci.load_all_cal()
RoundLoadAllCal ==
    /\ pc = "saved"
    /\ RoundLoaded(load_all_cal(<< >>, env.path, cfg.D), "load_all_cal")

RoundNext ==
    \/ RoundReduce
    \/ RoundSave
    \/ RoundLoadFibers
    \/ RoundLoadAllCal

SpecRound == RoundInit /\ [][RoundNext]_vars

-----------------------------------------------------------------------------
(* SpecPair: the two amplifiers of one spectrograph side, each reduced by    *)
(* its own worker in the order of reduce_twighlight (load_fibers, the stages *)
(* up to get_fiber_to_fiber, save_fibers), their steps interleaved in any    *)
(* order.  Both have the exposure's output directory as path and calpath.    *)
(* The directory maps a file name <<fibnum, amp>> (the other parts of the    *)
(* key, specid, ifuslot and ifuid, are those of the side) to the record.     *)
(* The variables hold the first amplifier, loc.twin the second.              *)

\* the files a pattern of every amplifier would list: a variant used to test
\* C15
ListedNames_any_amp(dir, amp) == DOMAIN dir

\* glob.glob(op.join(path, 'fiber_*_%s_%s_%s_%s.pkl' % (specid, ifuslot,
\* ifuid, amp))): the names of the amplifier's own key
ListedNames(dir, amp) == {f \in DOMAIN dir : f[2] = amp}

\* the listed files by index
OwnFiles(dir, amp) ==
    [n \in {f[1] : f \in ListedNames(dir, amp)} |->
        dir[CHOOSE f \in ListedNames(dir, amp) : f[1] = n]]

\* the names save_fibers writes: fiber.save(specid, ifuslot, ifuid, amp)
SavedNames(fibs, amp) == {<<fibs[k].fibnum, amp>> : k \in 1..Len(fibs)}

\* the directory after save_fibers of the amplifier amp
SavedInto(dir, fibs, amp) ==
    LET own == save_fibers(fibs, OwnFiles(dir, amp), 1)
    IN  [f \in DOMAIN dir \cup SavedNames(fibs, amp) |->
            IF f \in SavedNames(fibs, amp) THEN own[f[1]] ELSE dir[f]]

\* what the amplifier amp sees of the run's inputs
OwnView(e, amp) ==
    [e EXCEPT !.path = OwnFiles(e.path, amp), !.files = OwnFiles(e.path, amp)]

\* Amplifier(...) as a record
Fresh(c) ==
    [img |-> [image |-> Array(c.raw, c.data), error |-> InitError(c),
              overscan_value |-> None, trimmed |-> FALSE, image_prepped |-> FALSE],
     fibers |-> << >>, good_fibers |-> << >>, dead_fibers |-> << >>,
     default_fib |-> 0, log |-> << >>, call |-> [n |-> 1, name |-> "none"],
     status |-> "ok"]

PairSteps == <<"load_fibers", "get_trace", "get_fibermodel",
               "get_fiber_to_fiber", "save_fibers">>

\* the step after name
After(name) ==
    LET i == CHOOSE k \in 1..Len(PairSteps) : PairSteps[k] = name
    IN  IF i = Len(PairSteps) THEN "done" ELSE PairSteps[i + 1]

\* one step of a worker on its amplifier s; e is the amplifier's view
PairCall(s0, c, e, name) ==
    LET s == [s0 EXCEPT !.call = [n |-> 1, name |-> name]] IN
    CASE name = "load_fibers" ->
            With(load_fibers(s.fibers, e.path), LAMBDA r :
                IF r.status = "ok" /\ s.fibers = << >>
                THEN [Settle(s, r) EXCEPT !.good_fibers = GoodOf(r.fibers),
                                          !.dead_fibers = DeadOf(r.fibers)]
                ELSE Settle(s, r))
      [] name = "get_trace" -> GetTrace(s, c, e)
      [] name = "get_fibermodel" -> GetFibermodel(s, c, e)
      [] name = "get_fiber_to_fiber" -> GetFiberToFiber(s, c, e)
      [] OTHER -> s

\* the whole run of one worker with nothing else running
RECURSIVE RunAlone(_, _, _, _)
RunAlone(s, c, e, i) ==
    IF i > Len(PairSteps) \/ s.status # "ok" THEN s
    ELSE RunAlone(PairCall(s, c, e, PairSteps[i]), c, e, i + 1)

PairConfigs == {c \in StageConfigs : c.type = "twi" /\ c.refit}

\* the second amplifier of the side
TwinCfg == [cfg EXCEPT !.amp = "LU"]

\* the records an earlier run of both amplifiers left in the directory
SharedRun(F) ==
    [f \in (1..F) \X {"LL", "LU"} |-> SavedFiber(NCol, f[1], FALSE)]
NoFiles == [f \in {} |-> SavedFiber(NCol, 1, FALSE)]

PairEnvs ==
    { [biweight |-> Whole(2),
       darkimage |-> <<Whole(1), Whole(1)>>,
       biasimage |-> <<Whole(3), Whole(1)>>,
       pixelflat |-> <<Whole(2), Whole(2)>>,
       allfibers |-> [c \in 1..NCol |->
                        Centroids(c - 1,
                                  IF c - 1 = brcol(NCol) THEN (1..WaveFib) \ S
                                  ELSE 1..WaveFib, 0, 0)],
       ref_file |-> RefFile(WaveFib),
       files |-> NoFiles,
       path |-> dir,
       seed_ok |-> ok,
       draw |-> 1] :
      S \in {{}, {1}, {2}}, dir \in {NoFiles, SharedRun(WaveFib)},
      ok \in BOOLEAN }

PairInit ==
    /\ \E c \in PairConfigs : Construct(c)
    /\ env \in PairEnvs
    /\ pc = "load_fibers"
    /\ loc = [twin |-> Fresh(TwinCfg), tpc |-> "load_fibers", start |-> env,
              reads |-> <<{}, {}>>, writes |-> <<{}, {}>>]

\* the files the step name of the amplifier amp reads and writes
StepReads(name, fibs, dir, amp) ==
    IF name = "load_fibers" /\ fibs = << >> THEN ListedNames(dir, amp) ELSE {}
StepWrites(name, fibs, amp) ==
    IF name = "save_fibers" THEN SavedNames(fibs, amp) ELSE {}

\* the directory after the step
StepDir(name, fibs, dir, amp) ==
    IF name = "save_fibers" THEN SavedInto(dir, fibs, amp) ELSE dir

\* the step left the first amplifier in s
PairStepped(s) ==
    /\ Becomes(s)
    /\ pc' = IF s.status = "ok" THEN After(pc) ELSE Ended(s.status)

\* the step left the second amplifier in s
TwinStepped(s) ==
    loc' = [loc EXCEPT
              !.twin = s,
              !.tpc = IF s.status = "ok" THEN After(loc.tpc) ELSE Ended(s.status),
              !.reads[2] = @ \cup StepReads(loc.tpc, loc.twin.fibers,
                                            env.path, TwinCfg.amp),
              !.writes[2] = @ \cup StepWrites(loc.tpc, loc.twin.fibers,
                                              TwinCfg.amp)]

\* a step of the worker of the first amplifier
PairStepOne ==
    /\ pc \in Range(PairSteps)
    /\ PairStepped(PairCall([Fresh(cfg) EXCEPT
                                !.img = Snapshot, !.fibers = fibers,
                                !.good_fibers = good_fibers,
                                !.dead_fibers = dead_fibers,
                                !.default_fib = default_fib],
                            cfg, OwnView(env, cfg.amp), pc))
    /\ env' = [env EXCEPT !.path = StepDir(pc, fibers, @, cfg.amp)]
    /\ loc' = [loc EXCEPT
                  !.reads[1] = @ \cup StepReads(pc, fibers, env.path, cfg.amp),
                  !.writes[1] = @ \cup StepWrites(pc, fibers, cfg.amp)]
    /\ UNCHANGED cfg

\* a step of the worker of the second amplifier
PairStepTwin ==
    /\ loc.tpc \in Range(PairSteps)
    /\ TwinStepped(PairCall(loc.twin, TwinCfg, OwnView(env, TwinCfg.amp), loc.tpc))
    /\ env' = [env EXCEPT !.path = StepDir(loc.tpc, loc.twin.fibers, @, TwinCfg.amp)]
    /\ UNCHANGED <<cfg, imgVars, fibVars, default_fib, pc>>

PairNext ==
    \/ PairStepOne
    \/ PairStepTwin

SpecPair == PairInit /\ [][PairNext]_vars

-----------------------------------------------------------------------------
(* SpecSky: the part of sky_subtraction that follows its prerequisites       *)
(* (lines 1121-1150) on a science amplifier whose fibers hold a spectrum, a  *)
(* wavelength array and a fiber to fiber array.  skypath is None or the      *)
(* directory of the records of another reduction.  loc.attrs holds the       *)
(* attributes the method assigns (an attribute that was never assigned is    *)
(* not in its domain), loc.skypath is self.skypath.  Values are rationals.   *)

RLess(p, q) == p[1] * q[2] < q[1] * p[2]

\* utils.biweight_location of a few rationals: the (lower) median
RLocation(a) ==
    LET S == 1..Len(a)
    IN  a[CHOOSE i \in S :
            /\ 2 * Cardinality({j \in S : RLess(a[j], a[i]) \/ (a[j] = a[i] /\ j < i)})
                   < Len(a)
            /\ 2 * Cardinality({j \in S : RLess(a[j], a[i]) \/ (a[j] = a[i] /\ j <= i)})
                   >= Len(a)]

\* utils.biweight_filter of fewer rationals than the window holds
RFilter(a) == [i \in 1..Len(a) |-> RLocation(a)]

Wholes(a) == [i \in 1..Len(a) |-> Whole(a[i])]

\* a fiber of the science amplifier when the prerequisites have run
SkyFiber(D, n, dead) ==
    [SavedFiber(D, n, dead) EXCEPT
        !.spectrum = Wholes(ArrayOf(D, n, 6)),
        !.fiber_to_fiber = [c \in 1..D |-> Whole(c)]]

\* get_master_sky(sky=True): spectrum / fiber_to_fiber of the good fibers,
\* stacked and smoothed by a filter wider than the stack.  np.hstack of no
\* arrays raises ValueError.
RECURSIVE SkyStack(_, _, _)
SkyStack(fibs, good, i) ==
    IF i > Len(good) THEN << >>
    ELSE LET f == fibs[good[i] + 1]
         IN  [c \in 1..f.D |-> RDiv(f.spectrum[c], f.fiber_to_fiber[c])]
             \o SkyStack(fibs, good, i + 1)

get_master_sky(fibs, good) ==
    IF \E i \in 1..Len(good) :
          \/ IsNone(fibs[good[i] + 1].spectrum)
          \/ IsNone(fibs[good[i] + 1].fiber_to_fiber)
          \/ IsNone(fibs[good[i] + 1].wavelength)
    THEN [mastersky |-> None, status |-> "TypeError"]
    ELSE IF good = << >> THEN [mastersky |-> None, status |-> "ValueError"]
    ELSE [mastersky |-> RFilter(SkyStack(fibs, good, 1)), status |-> "ok"]

\* fiber.fiber_to_fiber * np.interp(fiber.wavelength, masterwave, mastersky):
\* the smoothed master sky has one value at every wavelength
LocalSky(f, mastersky) ==
    [c \in 1..f.D |-> RMul(f.fiber_to_fiber[c], mastersky[1])]

\* the column of the fibers' arrays that a tracked pixel lies in
PixelCol(i, D) == IF i = 1 THEN 1 ELSE D

RECURSIVE RSum(_, _)
RSum(a, i) == IF i > Len(a) THEN Whole(0) ELSE RAdd(a[i], RSum(a, i + 1))

\* fiber_utils.get_model_image(image, fibers, prop): every fiber's prop
\* laid along its trace through its profile, here the sum over the fibers
\* at the pixel's column.  vals[k] is the prop of fiber k.
get_model_image(img, vals) ==
    IF \E k \in 1..Len(vals) : IsNone(vals[k])
    THEN [image |-> None, status |-> "TypeError"]
    ELSE [image |-> Array(img.shape,
                          [i \in 1..Len(img.px) |->
                              RSum([k \in 1..Len(vals) |->
                                       vals[k][PixelCol(i, Len(vals[k]))]], 1)]),
          status |-> "ok"]

\* a - b of two images
ImageMinus(a, b) ==
    Array(a.shape, [i \in 1..Len(a.px) |-> RSub(a.px[i], b.px[i])])

Attr(f, attr) == [k \in 1..Len(f) |-> f[k][attr]]

\* fiber.continuum = biweight_filter(fiber.spectrum - fiber.sky_spectrum, ...)
Continuum(f) ==
    RFilter([c \in 1..f.D |-> RSub(f.spectrum[c], f.sky_spectrum[c])])

\* the records of skypath: of a finished science reduction ("sky"), of a
\* twilight reduction, which has no sky spectrum ("twi"), of a reduction
\* whose first record only has one ("first"), and of an earlier Fiber class
\* without the attribute ("old")
SkyRecord(D, n, kind) ==
    LET f == SkyFiber(D, n, FALSE)
        sky == [c \in 1..D |-> Whole(100 * n + 30 + c)]
    IN  CASE kind = "sky" -> [f EXCEPT !.sky_spectrum = sky]
          [] kind = "first" -> [f EXCEPT !.sky_spectrum = IF n = 1 THEN sky ELSE None]
          [] kind = "old" -> Without(f, "sky_spectrum")
          [] OTHER -> f

SkyPaths ==
    {None} \cup {[dir |-> [n \in 1..WaveFib |-> SkyRecord(NCol, n, kind)]] :
                    kind \in {"sky", "twi", "first", "old"}}

SkyConfigs ==
    { [make_skyframe |-> a, do_cont_sub |-> b, make_residual |-> c,
       D |-> NCol, shape |-> <<1032, 1032>>, debug |-> FALSE] :
      a \in BOOLEAN, b \in BOOLEAN, c \in BOOLEAN }

SkyInit ==
    /\ cfg \in SkyConfigs
    /\ image = Array(cfg.shape, <<Whole(1000), Whole(2000)>>)
    /\ error = Array(cfg.shape, <<Whole(4), Whole(4)>>)
    /\ overscan_value = Whole(2)
    /\ trimmed = TRUE
    /\ image_prepped = TRUE
    /\ \E S \in {{}, {2}} :
          fibers = [n \in 1..WaveFib |-> SkyFiber(NCol, n, n \in S)]
    /\ good_fibers = GoodOf(fibers)
    /\ dead_fibers = DeadOf(fibers)
    /\ default_fib = 0
    /\ \E p \in SkyPaths : env = [skypath |-> p]
    /\ loc = [skypath |-> env.skypath, attrs |-> [a \in {} |-> None]]
    /\ pc = "load_sky"

SkyFrameVars == <<cfg, imgVars, good_fibers, dead_fibers, default_fib, env>>

\* the attributes attrs with name set to v
SetAttr(attrs, name, v) ==
    [a \in DOMAIN attrs \cup {name} |-> IF a = name THEN v ELSE attrs[a]]

\* lines 1121-1127
SkyLoaded(r) ==
    /\ fibers' = r.fibers
    /\ pc' = IF r.status = "ok" THEN "master_sky" ELSE Ended(r.status)
    /\ loc' = IF r.status = "ok" /\ IsNone(r.fibers[1].sky_spectrum)
              THEN [loc EXCEPT !.skypath = None]
              ELSE loc

SkyLoad ==
    /\ pc = "load_sky"
    /\ IF loc.skypath # None
       THEN SkyLoaded(load_cal_property(fibers, loc.skypath.dir,
                                        <<"sky_spectrum">>, cfg.D))
       ELSE pc' = "master_sky" /\ UNCHANGED <<fibers, loc>>
    /\ UNCHANGED SkyFrameVars

\* lines 1128-1133
SkyBuilt(m) ==
    /\ pc' = IF m.status = "ok" THEN "skyframe" ELSE Ended(m.status)
    /\ IF m.status = "ok"
       THEN /\ fibers' = [k \in 1..Len(fibers) |->
                            [fibers[k] EXCEPT
                                !.sky_spectrum = LocalSky(fibers[k], m.mastersky)]]
            /\ loc' = [loc EXCEPT !.attrs = SetAttr(@, "mastersky", m.mastersky)]
       ELSE UNCHANGED <<fibers, loc>>

SkyMaster ==
    /\ pc = "master_sky"
    /\ IF loc.skypath = None
       THEN SkyBuilt(get_master_sky(fibers, good_fibers))
       ELSE pc' = "skyframe" /\ UNCHANGED <<fibers, loc>>
    /\ UNCHANGED SkyFrameVars

\* the model image m was built and is kept as name, image - m as diff
Framed(m, name, diff, next) ==
    /\ pc' = IF m.status = "ok" THEN next ELSE Ended(m.status)
    /\ loc' = IF m.status = "ok"
              THEN [loc EXCEPT !.attrs = SetAttr(SetAttr(@, name, m.image), diff,
                                                 ImageMinus(image, m.image))]
              ELSE loc

\* lines 1134-1137
SkyFrame ==
    /\ pc = "skyframe"
    /\ IF cfg.make_skyframe
       THEN Framed(get_model_image(image, Attr(fibers, "sky_spectrum")),
                   "skyframe", "clean_image", "cont_sub")
       ELSE pc' = "cont_sub" /\ UNCHANGED loc
    /\ UNCHANGED <<SkyFrameVars, fibers>>

\* lines 1143-1146 with the continuum of every fiber in cont: self.skyframe
\* is read, and was assigned only by the block of make_skyframe
ContFramed(cont, m) ==
    IF m.status # "ok" THEN pc' = Ended(m.status) /\ UNCHANGED loc
    ELSE IF "skyframe" \notin DOMAIN loc.attrs
    THEN /\ pc' = Ended("AttributeError")
         /\ loc' = [loc EXCEPT !.attrs = SetAttr(SetAttr(@, "continuum", cont),
                                                  "cont_frame", m.image)]
    ELSE /\ pc' = "residual"
         /\ loc' = [loc EXCEPT !.attrs =
                       SetAttr(SetAttr(SetAttr(@, "continuum", cont),
                                       "cont_frame", m.image),
                               "continuum_sub",
                               ImageMinus(ImageMinus(image, @.skyframe), m.image))]

\* lines 1138-1146
ContSub ==
    /\ pc = "cont_sub"
    /\ IF ~cfg.do_cont_sub THEN pc' = "residual" /\ UNCHANGED loc
       ELSE IF \E k \in 1..Len(fibers) : IsNone(fibers[k].sky_spectrum)
       THEN pc' = Ended("TypeError") /\ UNCHANGED loc
       ELSE ContFramed([k \in 1..Len(fibers) |-> Continuum(fibers[k])],
                       get_model_image(image, [k \in 1..Len(fibers) |->
                                                  Continuum(fibers[k])]))
    /\ UNCHANGED <<SkyFrameVars, fibers>>

\* lines 1147-1150
Residual ==
    /\ pc = "residual"
    /\ IF cfg.make_residual
       THEN Framed(get_model_image(image, Attr(fibers, "spectrum")),
                   "model", "residual", "returned")
       ELSE pc' = "returned" /\ UNCHANGED loc
    /\ UNCHANGED <<SkyFrameVars, fibers>>

SkyNext ==
    \/ SkyLoad
    \/ SkyMaster
    \/ SkyFrame
    \/ ContSub
    \/ Residual

SpecSky == SkyInit /\ [][SkyNext]_vars

------------------------------------------------------------------------------
(* SpecSci: the body of reduce_science for one science frame (panacea.py).   *)
(* The two amplifiers of a side are constructed and reduced one after the    *)
(* other, then the output images are built and the fibers saved.  What a     *)
(* stage computes is specified above; here a stage is a call that completes  *)
(* or raises, and leaves on the amplifier the attributes the driver reads.   *)

\* the methods of class Amplifier the driver can name, each with the keyword
\* parameters of its signature
AmplifierMethods ==
    [load_fibers |-> {}, load_all_cal |-> {}, save_fibers |-> {},
     prepare_image |-> {}, get_trace |-> {}, get_fibermodel |-> {},
     fiberextract |-> {"cols"}, get_wavelength_solution |-> {},
     get_fiber_to_fiber |-> {}, sky_subtraction |-> {"cols"},
     clean_cosmics |-> {}]

SciCallOf(name, keywords) == [name |-> name, keywords |-> keywords]

\* the calls of lines 243-253 (259-271): fibers were loaded or not, the first
\* has a spectrum or not
SciBranch(loaded, spectrum, start_from_scratch) ==
    IF loaded /\ ~start_from_scratch
    THEN IF spectrum
         THEN <<SciCallOf("get_image", {}), SciCallOf("sky_subtraction", {}),
                SciCallOf("clean_cosmics", {})>>
         ELSE << >>
    ELSE <<SciCallOf("load_all_cal", {}), SciCallOf("sky_subtraction", {}),
           SciCallOf("clean_cosmics", {}), SciCallOf("fiberextract", {"mask"}),
           SciCallOf("sky_subtraction", {})>>

\* what a call raises, "ok" when it completes: a name the class does not
\* define, a keyword the method does not take, clean_cosmics reading
\* self.clean_image, or the stage's own failure
SciStatus(a, call, fails) ==
    IF call.name \notin DOMAIN AmplifierMethods THEN "AttributeError"
    ELSE IF ~(call.keywords \subseteq AmplifierMethods[call.name]) THEN "TypeError"
    ELSE IF call.name = "clean_cosmics" /\ "clean_image" \notin a.attrs
         THEN "AttributeError"
    ELSE IF call.name \in fails THEN "Exception"
    ELSE "ok"

\* the attributes a completed call sets: make_skyframe is left at its default
\* True, so sky_subtraction sets skyframe and clean_image
SciSets(name) ==
    CASE name = "sky_subtraction" -> {"skyframe", "clean_image"}
      [] name = "clean_cosmics" -> {"mask"}
      [] OTHER -> {}

\* the stages that assign to the fibers of the amplifier
SciMutates == {"load_all_cal", "sky_subtraction", "fiberextract"}

SciDone(a, call) ==
    [a EXCEPT !.attrs = @ \cup SciSets(call.name),
              !.calls = Append(@, call.name)]

\* Amplifier(...) of the driver, before load_fibers
SciAmplifier == [attrs |-> {}, calls |-> << >>, saved |-> 0]

\* the records the output directory holds for an amplifier
SciRecords == {"none", "traced", "extracted"}

SciInit ==
    /\ cfg = NoConfig
    /\ IdleImage
    /\ fibers = << >>
    /\ good_fibers = << >>
    /\ dead_fibers = << >>
    /\ default_fib = 0
    /\ \E s \in BOOLEAN, r1 \in SciRecords, r2 \in SciRecords,
          f \in SUBSET {"load_all_cal", "sky_subtraction", "clean_cosmics"} :
          env = [start_from_scratch |-> s, records |-> <<r1, r2>>, fails |-> f]
    /\ pc = "sci"
    /\ loc = [amp |-> 1, sci |-> <<SciAmplifier, SciAmplifier>>, todo |-> << >>,
              outputs |-> {}]

SciFrame == <<cfg, imgVars, fibVars, default_fib, env>>

\* where the driver goes with the calls `todo` left for amplifier a
SciAfter(a, todo) ==
    IF todo # << >> THEN "calls" ELSE IF a = 1 THEN "sci" ELSE "outputs"

\* sci = Amplifier(...); sci.load_fibers(); the branch is chosen
SciConstruct ==
    /\ pc = "sci"
    /\ loc' = [loc EXCEPT
                 !.sci[loc.amp] = SciDone(SciAmplifier, SciCallOf("load_fibers", {})),
                 !.todo = SciBranch(env.records[loc.amp] # "none",
                                    env.records[loc.amp] = "extracted",
                                    env.start_from_scratch),
                 !.amp = IF SciAfter(loc.amp, SciBranch(env.records[loc.amp] # "none",
                                    env.records[loc.amp] = "extracted",
                                    env.start_from_scratch)) = "sci"
                         THEN 2 ELSE @]
    /\ pc' = SciAfter(loc.amp, loc'.todo)
    /\ UNCHANGED SciFrame

\* the next call of the branch
SciCall ==
    /\ pc = "calls"
    /\ IF SciStatus(loc.sci[loc.amp], Head(loc.todo), env.fails) = "ok"
       THEN /\ loc' = [loc EXCEPT
                         !.sci[loc.amp] = SciDone(@, Head(loc.todo)),
                         !.todo = Tail(@),
                         !.amp = IF SciAfter(loc.amp, Tail(loc.todo)) = "sci"
                                 THEN 2 ELSE @]
            /\ pc' = SciAfter(loc.amp, Tail(loc.todo))
       ELSE /\ loc' = loc
            /\ pc' = "raise"
    /\ UNCHANGED SciFrame

\* the attributes lines 276-295 read from the two amplifiers
SciRead == {"clean_image", "mask"}

\* lines 276-310: the output images from clean_image and mask of both
\* amplifiers, then sci1.save_fibers() and sci2.save_fibers()
SciFinish ==
    /\ pc = "outputs"
    /\ IF \A a \in 1..2 : SciRead \subseteq loc.sci[a].attrs
       THEN /\ loc' = [loc EXCEPT
                         !.outputs = {"S", "e.S", "cS", "Fe", "FeS"},
                         !.sci = [a \in 1..2 |->
                                    [loc.sci[a] EXCEPT
                                        !.calls = Append(@, "save_fibers"),
                                        !.saved = @ + 1]]]
            /\ pc' = "returned"
       ELSE /\ loc' = loc
            /\ pc' = "raise"
    /\ UNCHANGED SciFrame

SciNext ==
    \/ SciConstruct
    \/ SciCall
    \/ SciFinish

SpecSci == SciInit /\ [][SciNext]_vars

-----------------------------------------------------------------------------
(* Properties of the twilight reduction (Spec) *)

\* the fill-in step of a stage has been completed
TraceFilled ==
    \/ loc.stage \in {"model", "extract", "wave", "ftf"}
    \/ loc.stage = "trace" /\ pc \in {"shift", "returned"}
ModelFilled ==
    \/ loc.stage \in {"extract", "wave", "ftf"}
    \/ loc.stage = "model" /\ pc = "returned"
WaveFilled ==
    \/ loc.stage = "ftf"
    \/ loc.stage = "wave" /\ pc = "returned"
FiberToFiberSet == pc = "done"

\* a per-column attribute of fiber f is there at every column
TracePopulated(f) ==
    /\ Len(f.trace) = f.D
    /\ \A c \in 1..f.D : f.trace_x[c] # flag /\ f.trace[c] # flag /\ f.trace[c] > 0
ModelPopulated(f) ==
    /\ ~IsNone(f.fibmodel_x) /\ ~IsNone(f.fibmodel_y) /\ ~IsNone(f.binx)
    /\ ~IsNone(f.fibmodel)
    /\ Len(f.fibmodel) = f.D
WavePopulated(f) == ~IsNone(f.wavelength) /\ Len(f.wavelength) = f.D
FiberToFiberPopulated(f) ==
    ~IsNone(f.fiber_to_fiber) /\ Len(f.fiber_to_fiber) = f.D

-----------------------------------------------------------------------------
(* Properties of fill_in_dead_fibers (SpecFill) *)

\* C2: fill_in_dead_fibers ends the process exactly when the fiber sequence
\* has a dead fiber and no non-dead fiber; whenever a non-dead fiber exists,
\* every dead fiber is filled and the call returns.
C2_ExitsOnlyWhenUnresolvable ==
    DOMAIN loc # {} =>
        ((pc = "exit") <=> (dead_fibers # << >> /\ good_fibers = << >>))

-----------------------------------------------------------------------------
(* Properties of get_trace (SpecTrace) *)

\* the fiber at position k has no centroid within fdist_ref of its standard
\* position at the reference column
Unmatched(k) ==
    LET yref == env.allfibers[brcol(cfg.D) + 1]
    IN  \A m \in 1..Len(yref) : Abs(loc.standardcol[k + 1] - yref[m]) >= fdist_ref

\* the non-dead fibers nearest to position k
NearestGood(k) ==
    {j \in Range(good_fibers) :
        \A m \in Range(good_fibers) : Abs(j - k) <= Abs(m - k)}

\* the fiber at k is dead and its trace is the trace of a nearest non-dead
\* fiber moved by the distance of the two standard positions
DeadTraceFromNeighbor(k) ==
    /\ fibers[k + 1].dead
    /\ \E j \in NearestGood(k) : \A c \in 1..cfg.D :
          fibers[k + 1].trace[c] =
              fibers[j + 1].trace[c] + loc.standardcol[k + 1] - loc.standardcol[j + 1]

\* C7 as claimed: when get_trace with a reference file has returned, every
\* fiber with no centroid within fdist_ref at the reference column is dead
\* and its trace is its nearest non-dead neighbor's plus the difference of
\* their standard positions.
C7_DeadTraceFromNeighbor ==
    (pc = "returned" /\ cfg.use_trace_ref) =>
        \A k \in 0..Len(fibers) - 1 : Unmatched(k) => DeadTraceFromNeighbor(k)

\* C7 as amended: the same when calculate_shift is off, so that the traces
\* are not replaced by the shifted calibration traces.
C7_DeadTraceFromNeighborUnshifted ==
    (pc = "returned" /\ cfg.use_trace_ref /\ ~cfg.calculate_shift) =>
        \A k \in 0..Len(fibers) - 1 : Unmatched(k) => DeadTraceFromNeighbor(k)

\* C7 witness: get_trace has returned without a shift correction, the first
\* two fibers were unmatched, and the first one carries the trace of the
\* third, two positions away, moved by the standard distance.
C7_Witness ==
    /\ pc = "returned"
    /\ cfg.use_trace_ref
    /\ ~cfg.calculate_shift
    /\ dead_fibers = <<0, 1>>
    /\ Unmatched(0)
    /\ loc.ind[1] = 2
    /\ fibers[1].trace = [c \in 1..cfg.D |-> fibers[3].trace[c] - 20]
    /\ AllPositive(fibers[1].trace)

\* C8: no set of detected centroids makes get_trace end the process as long
\* as one fiber is matched at the reference column: with calculate_shift
\* off, the process ends only when there is no non-dead fiber.
C8_UnmatchedNeverFatal ==
    (pc \in {"exit", "raise"} /\ ~cfg.calculate_shift) => good_fibers = << >>

-----------------------------------------------------------------------------
(* Properties of get_wavelength_solution (SpecWave, SpecWaveFair) *)

\* both ends of the wavelength array w are within WaveTol of the limits
WithinLimits(w, lims) ==
    /\ Abs(ArrayMin(w) - lims[1]) <= WaveTol
    /\ Abs(ArrayMax(w) - lims[2]) <= WaveTol

\* the non-dead fiber at index default_fib
SeedFiber == fibers[good_fibers[default_fib + 1] + 1]

SeedAccepted ==
    /\ pc = "propagate"
    /\ default_fib < Len(good_fibers)
    /\ WithinLimits(SeedFiber.wavelength, cfg.init_lims)

\* C9: the seed search of each pass ends: the count of failed attempts
\* never passes MaxSeedFailures while the search goes on, and every search
\* leads either to an accepted seed fiber, whose wavelength range is within
\* WaveTol of init_lims at both ends, or to the end of the process.
C9_SeedSearchTerminates ==
    /\ [](pc = "seed" => loc.cnting <= MaxSeedFailures)
    /\ (pc = "seed") ~> (SeedAccepted \/ pc \in {"exit", "raise"})

\* C9 witness: in the second pass a seed fiber is accepted at the last
\* attempt the bound allows, after MaxSeedFailures failures each followed by
\* a new random choice.
C9_Witness ==
    /\ SeedAccepted
    /\ loc.k = 1
    /\ loc.cnting = MaxSeedFailures

\* C10: when get_wavelength_solution has returned, the wavelength array of
\* the non-dead fiber at index default_fib has its minimum within WaveTol of
\* init_lims[0] and its maximum within WaveTol of init_lims[1].
C10_SeedWithinLimits ==
    pc = "returned" =>
        /\ default_fib < Len(good_fibers)
        /\ WithinLimits(SeedFiber.wavelength, cfg.init_lims)

\* C10 witness: get_wavelength_solution has returned after a second pass
\* that drew a new seed fiber; the seed's range begins exactly WaveTol below
\* init_lims[0], another non-dead fiber's range lies outside the tolerance,
\* and a dead fiber has been filled.
C10_Witness ==
    /\ pc = "returned"
    /\ loc.cnting > 0
    /\ dead_fibers # << >>
    /\ ArrayMin(SeedFiber.wavelength) = cfg.init_lims[1] - WaveTol
    /\ \E i \in Range(good_fibers) :
          ~WithinLimits(fibers[i + 1].wavelength, cfg.init_lims)

\* a pass of the propagation has just been completed
Propagated == pc \in {"master_sky", "fill_wavelength"}

\* the index in good_fibers of the non-dead fiber solved immediately before
\* the one at index fibn: its neighbor on the side of the seed
SolvedBefore(fibn) == IF fibn < default_fib THEN fibn + 1 ELSE fibn - 1

\* C11: when a pass of the propagation is complete, every non-dead fiber
\* other than the seed was fitted exactly once, first downward from the seed
\* and then upward, and the initial guess handed to its fit was the
\* polynomial of the non-dead fiber solved immediately before it (the
\* polynomial that fiber has in this pass).
C11_GuessFromSolvedNeighbor ==
    Propagated =>
        /\ [i \in 1..Len(loc.init_sol) |-> loc.init_sol[i].fibn]
              = fibs1(default_fib) \o fibs2(default_fib, Len(good_fibers))
        /\ \A i \in 1..Len(loc.init_sol) :
              loc.init_sol[i].init_sol
                = fibers[good_fibers[SolvedBefore(loc.init_sol[i].fibn) + 1] + 1]
                      .wave_polyvals

-----------------------------------------------------------------------------
(* Properties of the stage entry points (SpecStages) *)

\* the stages in pipeline order, and the stage each entry point computes
Pipeline == <<"prepare_image", "trace", "fibermodel", "extract", "wavelength",
              "fiber_to_fiber", "sky">>

OwnStage(name) ==
    CASE name = "get_trace" -> 2
      [] name = "get_fibermodel" -> 3
      [] name = "fiberextract" -> 4
      [] name = "get_wavelength_solution" -> 5
      [] name = "get_fiber_to_fiber" -> 6
      [] name = "sky_subtraction" -> 7
      [] OTHER -> 0

\* the stages that ran and found something to work on, in the order in
\* which they were started
RECURSIVE StagesRun(_, _)
StagesRun(log, i) ==
    IF i > Len(log) THEN << >>
    ELSE (IF log[i].how # "none" THEN <<log[i].stage>> ELSE << >>)
         \o StagesRun(log, i + 1)

\* the first call of the driver was a stage entry point and has returned;
\* an amplifier that loads its calibration has one to load
FirstStageReturned ==
    /\ pc = "idle"
    /\ Len(loc.calls) = 1
    /\ OwnStage(loc.calls[1]) > 0
    /\ Refits(cfg) \/ Glob(env.files) # << >>

\* a stage is only started over an existing product as the own stage of the
\* entry point the driver called, and prepare_image runs at most once
NothingComputedAgain ==
    /\ \A i \in 1..Len(loc.log) :
          loc.log[i].had => loc.log[i].stage = Pipeline[OwnStage(loc.log[i].call.name)]
    /\ Cardinality({i \in 1..Len(loc.log) : loc.log[i].stage = "prepare_image"}) <= 1

\* C12: a stage entry point called on a fresh amplifier runs the stages up
\* to its own in pipeline order, each before the next starts, and over any
\* sequence of calls no prerequisite whose product exists is started again;
\* prepare_image runs at most once.
C12_PrerequisitesInOrderOnce ==
    /\ FirstStageReturned =>
          StagesRun(loc.log, 1) = SubSeq(Pipeline, 1, OwnStage(loc.calls[1]))
    /\ NothingComputedAgain

\* the stages the n-th call of the driver computed (rather than loaded)
FitIn(log, n) ==
    {log[i].stage : i \in {j \in 1..Len(log) : log[j].call.n = n /\ log[j].how = "fit"}}

\* the attributes the refit parameter is documented to refit
RefitStages == {"trace", "fibermodel", "wavelength", "fiber_to_fiber"}

\* the n-th call was get_fiber_to_fiber, it returned, and before it the
\* driver only loaded fibers
RefitCall(n) ==
    /\ n \in 1..Len(loc.calls)
    /\ loc.calls[n] = "get_fiber_to_fiber"
    /\ \A m \in 1..(n - 1) : loc.calls[m] = "load_fibers"
    /\ n < Len(loc.calls) \/ pc = "idle"

\* C13: with refit set, a call of get_fiber_to_fiber that returns has refit
\* the trace, the fiber model, the wavelength solution and the fiber to
\* fiber normalization, also when load_fibers was called before it.
C13_RefitRefitsAll ==
    \A n \in 1..MaxCalls :
        cfg.refit /\ RefitCall(n) => RefitStages \subseteq FitIn(loc.log, n)

\* without a load before it the refit is complete
C13_FreshRefit ==
    cfg.refit /\ RefitCall(1) => RefitStages \subseteq FitIn(loc.log, 1)

-----------------------------------------------------------------------------
(* Properties of the save and load round trip (SpecRound) *)

\* the values of a fiber the round trip is to reproduce
TraceValues(f) == f.trace
ModelValues(f) == <<f.fibmodel_x, f.fibmodel_y, f.binx, f.fibmodel_polyvals, f.fibmodel>>
WaveValues(f) == <<f.wave_polyvals, f.wavelength>>

\* a loader has run on the second amplifier
RoundTripped == loc.how # "none"

RoundTripByLoadFibers ==
    RoundTripped /\ loc.how = "load_fibers" /\ pc = "returned" /\ Len(fibers) = WaveFib

-----------------------------------------------------------------------------
(* Properties of prepare_image (SpecPrep) *)

\* C5: a run of prepare_image entered with image_prepped already true leaves
\* image, error, overscan_value, trimmed and image_prepped as they were.
C5_PreparedRunIsNoOp ==
    (pc = "idle" /\ loc.runs > 0 /\ loc.entry.image_prepped) =>
        Snapshot = loc.entry

TrimsecIsDataSection ==
    SliceShape(cfg.raw, cfg.trimsec) = <<InitN(cfg.raw), InitD(cfg.raw)>>

Pixels == 1..Len(env.pixelflat)

\* C14: the step divide_pixelflat leaves image and error exactly zero at
\* every pixel whose pixel flat is zero, with no undefined value there, and
\* image / flat and error / flat at every other pixel; with use_pixelflat off
\* it leaves both arrays as they were.
C14_ZeroFlatGivesZero ==
    [][pc = "divide_pixelflat" =>
          IF cfg.use_pixelflat
          THEN /\ image'.shape = image.shape /\ error'.shape = error.shape
               /\ \A i \in Pixels :
                     IF env.pixelflat[i] = Whole(0)
                     THEN /\ image'.px[i] = Whole(0)
                          /\ error'.px[i] = Whole(0)
                     ELSE /\ image'.px[i] = Rat(image.px[i][1] * env.pixelflat[i][2],
                                                image.px[i][2] * env.pixelflat[i][1])
                          /\ error'.px[i]
                               = Rat(error.px[i][1] * env.pixelflat[i][2] * env.pixelflat[i][2],
                                     error.px[i][2] * env.pixelflat[i][1] * env.pixelflat[i][1])
          ELSE image' = image /\ error' = error]_vars

\* C14 witness: the flat was divided out of a frame whose first tracked
\* pixel has a zero flat; that pixel is zero in both arrays and the other
\* one is not.
C14_Witness ==
    /\ pc = "orient_image"
    /\ cfg.use_pixelflat
    /\ env.pixelflat[1] = Whole(0)
    /\ env.pixelflat[2] # Whole(0)
    /\ image.px[1] = Whole(0) /\ error.px[1] = Whole(0)
    /\ image.px[2] # Whole(0) /\ error.px[2] # Whole(0)
    /\ ~IsNaN(image.px[2]) /\ ~IsNaN(error.px[2])

-----------------------------------------------------------------------------
(* Properties of the readers of persisted records (SpecLoad) *)

\* the number of files of the listing the last call unpickled
FilesRead ==
    LET n == Len(Glob(env.files)) IN
    CASE loc.call = "load_fibers" -> IF loc.before = << >> THEN n ELSE 0
      [] loc.call = "load_cal_property" -> n
      [] loc.call = "find_shift" ->
            IF loc.ret = None THEN Min(n, Len(loc.before)) ELSE n
      [] OTHER -> 0

\* C3: a reader (load_fibers, load_cal_property, find_shift) that returns has
\* read only files that sit at their own index in the sorted listing: the
\* k-th file read is the record of index k; on a missing or extra index the
\* reader ends the process instead.
C3_ReadersVerifyOrder ==
    pc = "returned" => \A k \in 1..FilesRead : Glob(env.files)[k] = k

\* the same for the two readers that compare each name with fcheck
C3_CheckedReadersVerifyOrder ==
    (pc = "returned" /\ loc.call # "load_fibers") =>
        \A k \in 1..FilesRead : Glob(env.files)[k] = k

\* the requested properties that the record at position k lacks altogether
LacksRequested(k) ==
    {loc.prop[n] : n \in 1..Len(loc.prop)} \ DOMAIN env.files[Glob(env.files)[k]]

\* C4: when load_cal_property is asked for a property that a record of an
\* ordered listing lacks altogether, the call returns (no sys.exit, no
\* exception) and the fiber in memory keeps its previous value of it.
C4_MissingPropertySkipped ==
    (/\ loc.call = "load_cal_property"
     /\ \A k \in 1..Len(Glob(env.files)) : Glob(env.files)[k] = k
     /\ \E k \in 1..Len(Glob(env.files)) : LacksRequested(k) # {})
    => /\ pc = "returned"
       /\ \A k \in 1..Len(loc.before) : \A a \in LacksRequested(k) :
             k <= Len(Glob(env.files)) => fibers[k][a] = loc.before[k][a]

\* C17: once a reader has returned, the fiber at 0-based position k of
\* self.fibers has fibnum k + 1, so that fibers[fibnum - 1], the fiber that
\* fill_in_dead_fibers writes to, is the fiber itself.
C17_FibnumIsPosition ==
    pc = "returned" => \A k \in 1..Len(fibers) : fibers[k].fibnum = k

\* the same for the reader that compares each name with fcheck
C17_CheckedReaderKeepsFibnum ==
    (pc = "returned" /\ loc.call = "load_cal_property") =>
        \A k \in 1..Len(fibers) : fibers[k].fibnum = k

-----------------------------------------------------------------------------
(* Properties of the source of a fill-in (SpecFill) *)

\* the non-dead fiber nearest to position k, the lower one of two
LowestNearest(k) == CHOOSE j \in NearestGood(k) : \A m \in NearestGood(k) : j <= m

\* the list keep_ind of the call with props names, for each dead fiber in
\* the order of dead_fibers, the nearest non-dead fiber (the lower one of
\* two), and the dead fiber holds that fiber's props
FilledFromNearest(props) ==
    /\ Len(loc[props]) = Len(dead_fibers)
    /\ \A n \in 1..Len(dead_fibers) :
          /\ loc[props][n] = LowestNearest(dead_fibers[n])
          /\ \A p \in Range(props) :
                fibers[dead_fibers[n] + 1][p] = fibers[loc[props][n] + 1][p]

\* C18: a call of fill_in_dead_fibers on fibers of which one is not dead
\* returns, and has then filled every dead fiber from the non-dead fiber at
\* the smallest index distance, the lower index of two at the same distance;
\* the returned list holds one source index per dead fiber in the order of
\* dead_fibers.
C18_NearestLowerIndexFirst ==
    (DOMAIN loc # {} /\ good_fibers # << >>) =>
        /\ pc = "ready"
        /\ \A props \in DOMAIN loc : FilledFromNearest(props)

\* the same for the calls that return
C18_ReturnedCallsFromNearest ==
    (DOMAIN loc # {} /\ pc = "ready") =>
        \A props \in DOMAIN loc : FilledFromNearest(props)

\* a call returned on a dead fiber between two non-dead ones
TieFilledFromLower ==
    /\ DOMAIN loc # {} /\ pc = "ready"
    /\ \E n \in 1..Len(dead_fibers) :
          LET k == dead_fibers[n] IN
          /\ k - 1 \in Range(good_fibers) /\ k + 1 \in Range(good_fibers)
          /\ \A props \in DOMAIN loc : loc[props][n] = k - 1

-----------------------------------------------------------------------------
(* Properties of the gap fill of get_trace (SpecTrace) *)

\* the fiber before (f0) and after (f1) the gap fill: the observed columns
\* are kept, and each gap column holds the trace nb there plus the offset of
\* the fiber from nb interpolated over the observed columns
GapFilledFrom(f0, f1, nb) ==
    LET sel == Observed(f0)
        off == [k \in 1..Len(sel) |-> f0.trace_y[sel[k] + 1] - nb[sel[k] + 1]]
    IN  \A c \in 1..f0.D :
           f1.trace_y[c] = IF f0.trace_x[c] # flag THEN f0.trace_y[c]
                           ELSE Interp(c - 1, sel, off) + nb[c]

\* each gap column holds the fiber's own polynomial
GapFilledFromPolynomial(f0, f1) ==
    \A c \in 1..f0.D :
       f1.trace_y[c] = IF f0.trace_x[c] # flag THEN f0.trace_y[c]
                       ELSE fit_trace_poly(f0).fiber.trace_polyvals[c]

\* the gap fill of the non-dead fiber at position fib of good_fibers, from
\* the fibers as the first loop left them (pre) to those the second loop
\* leaves (post): from the next non-dead fiber when its trace is final, else
\* from the previous one when its is, else from the polynomial.  The next
\* fiber is filled later in the loop and the previous one earlier.
GapFillAsClaimed(pre, post, good, fib) ==
    LET p == good[fib + 1] + 1
        next == IF fib + 1 < Len(good) THEN good[fib + 2] + 1 ELSE 0
        prev == IF fib >= 1 THEN good[fib] + 1 ELSE 0
    IN  IF next > 0 /\ AllPositive(pre[next].trace)
        THEN GapFilledFrom(pre[p], post[p], pre[next].trace)
        ELSE IF prev > 0 /\ AllPositive(post[prev].trace)
        THEN GapFilledFrom(pre[p], post[p], post[prev].trace)
        ELSE GapFilledFromPolynomial(pre[p], post[p])

GapFillsAsClaimed ==
    \A fib \in 0..Len(good_fibers) - 1 :
        ~Complete(fibers[good_fibers[fib + 1] + 1]) =>
            GapFillAsClaimed(EvalComplete(fibers, good_fibers), fibers',
                             good_fibers, fib)

\* C19: the gap columns of a non-dead fiber are filled from an adjacent
\* non-dead fiber whose trace is final, the interpolated offset and the
\* trace added back being taken from that one fiber, wherever the dead
\* fibers lie; from the bare polynomial only when neither adjacent non-dead
\* fiber has a final trace.
C19_GapFilledFromOneNeighbor ==
    [][(pc = "fit" /\ pc' = "fill") => GapFillsAsClaimed]_vars

\* the same for the frames without a dead fiber
C19_GapFilledWithoutDead ==
    [][(pc = "fit" /\ pc' = "fill" /\ dead_fibers = << >>) => GapFillsAsClaimed]_vars

-----------------------------------------------------------------------------
(* Properties of the fiber model of dead fibers (Spec) *)

\* get_fibermodel has just returned
FibermodelReturned == loc.stage = "model" /\ pc = "returned"

\* the parameters of a fiber model: polynomial order, bin positions, binned
\* amplitudes, bin edges, polynomial coefficients and dense profile
ModelParams == {"fibmodel_poly_order", "fibmodel_x", "fibmodel_y", "binx",
                "fibmodel_polyvals", "fibmodel"}

\* the dead fiber at position k holds the parameters attrs of a nearest
\* non-dead fiber
ModelFromNeighbor(k, attrs) ==
    \E j \in NearestGood(k) : \A a \in attrs : fibers[k + 1][a] = fibers[j + 1][a]

\* C20: when get_fibermodel has returned on a twilight amplifier, every dead
\* fiber holds the fiber-model parameters of its nearest non-dead neighbor,
\* the fitted polynomial coefficients included.
C20_DeadModelFromNeighbor ==
    FibermodelReturned =>
        \A n \in 1..Len(dead_fibers) : ModelFromNeighbor(dead_fibers[n], ModelParams)

\* the same without the polynomial coefficients
C20_DeadModelButCoefficients ==
    FibermodelReturned =>
        \A n \in 1..Len(dead_fibers) :
            ModelFromNeighbor(dead_fibers[n], ModelParams \ {"fibmodel_polyvals"})

-----------------------------------------------------------------------------
(* Properties of two amplifiers reduced side by side (SpecPair) *)

PairEnded(p) == p \in {"done", "raise", "exit"}

\* the amplifier s that stopped at p is what the worker of c produces alone
\* from the directory the run started with
AsAlone(s, p, c) ==
    With(RunAlone(Fresh(c), c, OwnView(loc.start, c.amp), 1), LAMBDA a :
        /\ s.img.image = a.img.image
        /\ s.img.error = a.img.error
        /\ s.fibers = a.fibers
        /\ p = (IF a.status = "ok" THEN "done" ELSE Ended(a.status)))

-----------------------------------------------------------------------------
(* Properties of the products of sky_subtraction (SpecSky) *)

SkyEnded == pc \in {"returned", "raise", "exit"}

\* every fiber holds a sky spectrum
SkyDefined == \A k \in 1..Len(fibers) : ~IsNone(fibers[k].sky_spectrum)

\* the attributes the enabled toggles produce
EnabledProducts ==
    (IF cfg.make_skyframe THEN {"skyframe", "clean_image"} ELSE {})
    \cup (IF cfg.do_cont_sub THEN {"continuum", "cont_frame", "continuum_sub"} ELSE {})
    \cup (IF cfg.make_residual THEN {"model", "residual"} ELSE {})

\* the continuum-subtracted frame is image - sky image - continuum image
ContinuumSubAsClaimed ==
    loc.attrs.continuum_sub =
        ImageMinus(ImageMinus(image,
                              get_model_image(image, Attr(fibers, "sky_spectrum")).image),
                   loc.attrs.cont_frame)

\* C21: once every fiber has its sky spectrum, sky_subtraction returns for
\* every combination of make_skyframe, do_cont_sub and make_residual, with
\* exactly the enabled products, and with do_cont_sub the continuum-
\* subtracted frame is the image minus the sky image minus the continuum
\* image, with or without make_skyframe.
C21_TogglesIndependent ==
    (SkyEnded /\ SkyDefined) =>
        /\ pc = "returned"
        /\ DOMAIN loc.attrs \ {"mastersky"} = EnabledProducts
        /\ cfg.do_cont_sub => ContinuumSubAsClaimed

\* the same for the combinations in which the sky frame is made whenever the
\* continuum is subtracted
C21_WithSkyframe ==
    (SkyEnded /\ SkyDefined /\ (cfg.do_cont_sub => cfg.make_skyframe)) =>
        /\ pc = "returned"
        /\ DOMAIN loc.attrs \ {"mastersky"} = EnabledProducts
        /\ cfg.do_cont_sub => ContinuumSubAsClaimed

\* the first record of skypath has a sky spectrum
SkySupplied ==
    /\ env.skypath # None
    /\ Has(env.skypath.dir[1], "sky_spectrum")
    /\ ~IsNone(env.skypath.dir[1].sky_spectrum)

\* every record of skypath holds the attribute, and all of them or none of
\* them a value: the records of one finished reduction
SkyRecordsUniform ==
    env.skypath # None =>
        /\ \A n \in DOMAIN env.skypath.dir : Has(env.skypath.dir[n], "sky_spectrum")
        /\ \A n, o \in DOMAIN env.skypath.dir :
              IsNone(env.skypath.dir[n].sky_spectrum)
                  = IsNone(env.skypath.dir[o].sky_spectrum)

\* the sky spectra are the loaded ones, or the ones built from the master sky
SkyAsClaimed ==
    /\ SkyDefined
    /\ IF SkySupplied
       THEN /\ \A k \in 1..Len(fibers) :
                  fibers[k].sky_spectrum = env.skypath.dir[k].sky_spectrum
            /\ "mastersky" \notin DOMAIN loc.attrs
       ELSE /\ loc.skypath = None
            /\ "mastersky" \in DOMAIN loc.attrs
            /\ \A k \in 1..Len(fibers) :
                  fibers[k].sky_spectrum = LocalSky(fibers[k], loc.attrs.mastersky)

\* C22: once sky_subtraction is past the loading and the building of the sky
\* spectra, every fiber has a sky spectrum: the loaded one when the records
\* of skypath supply it, with no master sky built, and otherwise
\* fiber_to_fiber times the master sky built from this amplifier, with
\* skypath reset to None.
C22_SkySpectrumDefined ==
    pc \notin {"load_sky", "master_sky"} => SkyAsClaimed

\* the same when skypath is None or holds the records of one finished
\* reduction
C22_UniformRecords ==
    (pc \notin {"load_sky", "master_sky"} /\ SkyRecordsUniform) => SkyAsClaimed

-----------------------------------------------------------------------------
(* Properties of the two passes of get_wavelength_solution (SpecWave) *)

\* the wavelength solution of the fiber at position p is left alone
WaveKept(p) ==
    /\ fibers'[p].wavelength = fibers[p].wavelength
    /\ fibers'[p].wave_polyvals = fibers[p].wave_polyvals

\* the propagation of pass loc.k fits every non-dead fiber but the seed
FullPropagation ==
    \A i \in 1..Len(good_fibers) :
        i - 1 # default_fib =>
            LET p == good_fibers[i] + 1
            IN  fibers'[p].wavelength =
                    PropagatedFit(fibers[p].fibnum, loc.k, cfg.init_lims, cfg.D)

\* C23: get_wavelength_solution of a twilight amplifier makes two passes of
\* seed search and propagation and no more: the master spectrum is built
\* from the non-dead fibers as the first pass left them and then the second
\* pass starts, each propagation fits every non-dead fiber but the seed, the
\* fill-in of the dead fibers starts only when the propagation of the second
\* pass has ended, and no step before it writes a dead fiber's wavelength
\* solution.
C23_TwoPassesThenFill ==
    [][/\ pc = "master_sky" =>
            /\ loc.k = 0
            /\ loc'.k = 1
            /\ loc'.cnting = 0
            /\ loc'.masterwave = masterwave(fibers, good_fibers)
            /\ pc' = "seed"
       /\ pc = "propagate" =>
            /\ FullPropagation
            /\ pc' = IF loc.k = 0 THEN "master_sky" ELSE "fill_wavelength"
       /\ pc' = "fill_wavelength" => pc = "propagate" /\ loc.k = 1
       /\ pc' = "returned" => pc = "fill_wavelength" /\ loc.k = 1
       /\ pc # "fill_wavelength" =>
            \A i \in 1..Len(dead_fibers) : WaveKept(dead_fibers[i] + 1)
      ]_vars

\* the call returned after two passes over two or more non-dead fibers, and
\* a dead fiber holds the solution the fill-in gave it
C23_Witness ==
    /\ pc = "returned"
    /\ loc.k = 1
    /\ loc.masterwave # {}
    /\ Len(good_fibers) >= 2
    /\ dead_fibers # << >>
    /\ \A i \in 1..Len(dead_fibers) : ~IsNone(fibers[dead_fibers[i] + 1].wavelength)

-----------------------------------------------------------------------------
(* Properties of the order of the steps of prepare_image (SpecPrep) *)

PrepOrder ==
    <<"subtract_overscan", "trim_image", "multiply_gain", "calculate_photonnoise",
      "subtract_bias", "subtract_dark", "divide_pixelflat", "orient_image",
      "set_prepped">>

\* the step that follows the step at pc
NextPrepStep ==
    LET i == CHOOSE k \in 1..Len(PrepOrder) : PrepOrder[k] = pc
    IN  IF i = Len(PrepOrder) THEN "idle" ELSE PrepOrder[i + 1]

\* in the first run the error after calculate_photonnoise is, squared, the
\* gain-multiplied initial error squared plus the overscan-subtracted image
\* times the gain: no bias, dark or flat has entered it
PoissonAfterGainOnly ==
    \A i \in 1..Len(error.px) :
        error'.px[i] =
            PhotonTerm(RMul(loc.entry.error.px[i], Whole(cfg.gain * cfg.gain)),
                       RMul(RSub(loc.entry.image.px[i], env.biweight),
                            Whole(cfg.gain)))

------------------------------------------------------------------------------
(* Properties of subtract_bias and subtract_dark (SpecPrep) *)

\* the image less mult times the master image
LessMaster(img, mult, master) ==
    Array(img.shape, [i \in 1..Len(img.px) |->
                         RSub(img.px[i], RMul(Whole(mult), master[i]))])

\* the step at pc = step subtracts mult * master exactly when `enabled`, and
\* leaves the error array alone
MasterStep(step, enabled, mult, master) ==
    pc = step =>
        /\ image' = IF enabled THEN LessMaster(image, mult, master) ELSE image
        /\ error' = error

\* C25: subtract_bias (subtract_dark) subtracts bias_mult (dark_mult) times
\* the master image exactly when the multiplier is nonzero, and leaves the
\* error array unchanged in both cases.
C25_SubtractIffNonzero ==
    [][/\ MasterStep("subtract_bias", cfg.bias_mult # 0, cfg.bias_mult, env.biasimage)
       /\ MasterStep("subtract_dark", cfg.dark_mult # 0, cfg.dark_mult, env.darkimage)
      ]_vars

\* what the code does: the master image is subtracted exactly when the
\* multiplier is positive
C25_SubtractIffPositive ==
    [][/\ MasterStep("subtract_bias", cfg.bias_mult > 0, cfg.bias_mult, env.biasimage)
       /\ MasterStep("subtract_dark", cfg.dark_mult > 0, cfg.dark_mult, env.darkimage)
      ]_vars
------------------------------------------------------------------------------
(* Properties of the column walk of get_trace (SpecTrace) *)

\* the columns of g with a centroid that lie between column c and the
\* reference column, the reference column included
Inward(g, c) ==
    {k \in 0..g.D - 1 :
        /\ g.trace_x[k + 1] # flag
        /\ IF c < brcol(g.D) THEN c < k /\ k <= brcol(g.D)
                             ELSE brcol(g.D) <= k /\ k < c}

\* the position predicted for column c: the centroid of g at the column of
\* Inward(g, c) nearest to c
Predicted(g, c) ==
    g.trace_y[(CHOOSE k \in Inward(g, c) :
                  \A m \in Inward(g, c) : Abs(k - c) <= Abs(m - c)) + 1]

\* the centroids detected at column c within fdist of the predicted position
Near(g, yvals, c) == {y \in Range(yvals) : Abs(Predicted(g, c) - y) < fdist}

\* column c of a walked fiber g that was f: a centroid within fdist of the
\* prediction, or else the unset entry it had
WalkedColumn(f, g, yvals, c) ==
    IF Near(g, yvals, c) # {}
    THEN g.trace_x[c + 1] = c /\ g.trace_y[c + 1] \in Near(g, yvals, c)
    ELSE /\ g.trace_x[c + 1] = flag
         /\ g.trace_y[c + 1] = f.trace_y[c + 1]

\* the walk turned the non-dead fiber f into g
WalkedFiber(f, g, allfibers) ==
    /\ [g EXCEPT !.trace_x = f.trace_x, !.trace_y = f.trace_y] = f
    /\ \A c \in 0..f.D - 1 :
          IF f.trace_x[c + 1] # flag
          THEN g.trace_x[c + 1] = f.trace_x[c + 1] /\ g.trace_y[c + 1] = f.trace_y[c + 1]
          ELSE WalkedColumn(f, g, allfibers[c + 1], c)

\* C26: the column walk of get_trace changes no fiber's dead flag; a non-dead
\* fiber keeps the entries it had, gets at every other column the centroid
\* within fdist of its predicted position, and keeps the column unset where
\* there is none; dead fibers are left as they were.
C26_WalkKeepsDeadFlags ==
    [][pc = "walk" =>
          /\ Len(fibers') = Len(fibers)
          /\ good_fibers' = good_fibers /\ dead_fibers' = dead_fibers
          /\ \A k \in 1..Len(fibers) :
                /\ fibers'[k].dead = fibers[k].dead
                /\ IF fibers[k].dead
                   THEN fibers'[k] = fibers[k]
                   ELSE WalkedFiber(fibers[k], fibers'[k], env.allfibers)
      ]_vars

\* after the walk a non-dead fiber has a gap and a centroid away from the
\* reference column, next to a dead fiber
C26_Witness ==
    /\ pc = "fit"
    /\ \E k \in 1..Len(fibers) : fibers[k].dead
    /\ \E k \in 1..Len(fibers) :
          /\ ~fibers[k].dead
          /\ \E c \in 0..NCol - 1 : c # brcol(NCol) /\ fibers[k].trace_x[c + 1] = flag
                                   /\ env.allfibers[c + 1] # << >>
          /\ \E c \in 0..NCol - 1 : c # brcol(NCol) /\ fibers[k].trace_x[c + 1] = c
------------------------------------------------------------------------------
(* Properties of the shift against the calibration traces (SpecTrace) *)

\* a shift can be measured: a fiber was traced for every calibration record
ShiftMeasurable == Len(fibers) >= Len(Glob(env.files))

\* the shift of fiber k against its calibration trace, as find_shift takes it
FiberShift(k) ==
    biweight_location([c \in 1..NCol |->
                          fibers[k].trace[c] - env.files[Glob(env.files)[k]].trace[c]])

\* every fiber's trace has become the calibration trace plus the smoothed
\* shift of that fiber
ShiftedFromCal ==
    \A k \in 1..Len(fibers) :
        \A c \in 1..NCol :
            fibers'[k].trace[c] =
                env.files[Glob(env.files)[k]].trace[c]
                + biweight_filter([j \in 1..Len(Glob(env.files)) |-> FiberShift(j)])[k]

\* C27: with calculate_shift enabled get_trace completes in every case: with
\* a measurable shift every trace becomes the calibration trace plus the
\* fiber's smoothed shift, and without one get_trace returns with the
\* measured traces unchanged.
C27_ShiftAlwaysCompletes ==
    [][pc = "shift" =>
          /\ pc' = "returned"
          /\ IF ShiftMeasurable THEN ShiftedFromCal ELSE fibers' = fibers
      ]_vars

\* the same with a fiber traced for every calibration record, and no more
C27_MeasurableShift ==
    [][(pc = "shift" /\ Len(fibers) = Len(Glob(env.files))) =>
          pc' = "returned" /\ ShiftedFromCal
      ]_vars

\* fewer fibers were traced than calibration records exist, and the shift
\* step ended in an AttributeError
C27_NoShiftRaises ==
    [][(pc = "shift" /\ ~ShiftMeasurable) => pc' = "raise" /\ fibers' = fibers]_vars
------------------------------------------------------------------------------
(* Properties of reduce_science (SpecSci) *)

\* sky_subtraction and then clean_cosmics have completed on amplifier a
SkyThenCosmics(a) ==
    \E i, j \in 1..Len(a.calls) :
        i < j /\ a.calls[i] = "sky_subtraction" /\ a.calls[j] = "clean_cosmics"

\* save_fibers came once, after the last call that assigns to the fibers
SavedOnceAtEnd(a) ==
    a.saved > 0 =>
        /\ a.saved = 1
        /\ a.calls[Len(a.calls)] = "save_fibers"
        /\ \A i \in 1..Len(a.calls) - 1 : a.calls[i] # "save_fibers"

\* C28: when reduce_science comes to build the output images of a frame,
\* sky_subtraction and clean_cosmics have completed on both amplifiers, so
\* that clean_image and mask exist, on every branch; and save_fibers is called
\* once per amplifier, after the last stage that changes its fibers.
C28_ProductsBeforeOutputs ==
    /\ pc = "outputs" =>
          \A a \in 1..2 : SkyThenCosmics(loc.sci[a]) /\ SciRead \subseteq loc.sci[a].attrs
    /\ \A a \in 1..2 : SavedOnceAtEnd(loc.sci[a])

\* no frame gets its output images: every run of the driver ends in an
\* exception
C28_NoOutputs == loc.outputs = {} /\ pc # "returned"
------------------------------------------------------------------------------
(* Properties of the seed fiber of the wavelength search (SpecWave) *)

\* the seed search fails at self.good_fibers[self.default_fib]
SeedOutOfRange == default_fib >= Len(good_fibers)

\* C29: every seed fiber index of the wavelength seed search, the ones drawn
\* at random after a failed attempt included, is a valid index into the
\* non-dead fibers: 0 <= default_fib < number of non-dead fibers.
C29_SeedIndexValid ==
    pc = "seed" => 0 <= default_fib /\ default_fib < Len(good_fibers)

\* the same for the draws alone: an index drawn after a failed attempt is valid
C29_DrawnIndexValid ==
    [][(pc = "seed" /\ pc' = "seed") =>
          0 <= default_fib' /\ default_fib' < Len(good_fibers)]_vars

\* an attempt with an index past the non-dead fibers ends in an IndexError
\* and nothing else does
C29_OutOfRangeRaises ==
    [][pc = "seed" => (SeedOutOfRange <=> pc' = "raise")]_vars
------------------------------------------------------------------------------
(* Properties of the frame of the dead-fiber fill of get_trace (SpecTrace) *)

\* g is f but for the three trace properties
SameButTrace(f, g) ==
    [g EXCEPT !.trace_x = f.trace_x, !.trace_y = f.trace_y, !.trace = f.trace] = f

\* C30: fill_in_dead_fibers and the reference-offset shift that follows it
\* in get_trace change only the listed properties (trace_x, trace_y, trace)
\* of dead fibers: every non-dead fiber, the source of a fill included, is
\* unchanged, and so is every other property of a dead fiber.
C30_FillChangesDeadOnly ==
    [][pc = "fill" =>
          /\ Len(fibers') = Len(fibers)
          /\ good_fibers' = good_fibers /\ dead_fibers' = dead_fibers
          /\ \A k \in 1..Len(fibers) :
                IF fibers[k].dead
                THEN SameButTrace(fibers[k], fibers'[k])
                ELSE fibers'[k] = fibers[k]
      ]_vars

\* get_trace returned with a dead fiber filled from a non-dead neighbor:
\* the columns are the neighbor's, the trace is the neighbor's moved by the
\* distance of the standard positions
C30_Witness ==
    /\ pc = "returned"
    /\ ~cfg.calculate_shift
    /\ \E i \in 1..Len(dead_fibers) :
          /\ i <= Len(loc.ind)
          /\ ~fibers[loc.ind[i] + 1].dead
          /\ fibers[dead_fibers[i] + 1].trace_x = fibers[loc.ind[i] + 1].trace_x
          /\ fibers[dead_fibers[i] + 1].trace # fibers[loc.ind[i] + 1].trace
          /\ fibers[dead_fibers[i] + 1].trace # Zeros(NCol)
=============================================================================
